---- MODULE Spec2Model ----
(***************************************************************************)
(* Model of the rainwater-harvesting feasibility service: the /predict     *)
(* handler of api.py (feature coercion, water balance, persistence), the   *)
(* GET routes, IMDWeatherService.get_comprehensive_weather_data of         *)
(* weather_service.py, and the threads in which the development server of  *)
(* Flask handles the requests side by side.                                *)
(*                                                                         *)
(* Numbers.  A number the program computes is a Python float and is held   *)
(* as one: IEEE-754 binary64, every operation rounded to nearest, ties to  *)
(* even, and applied in the order of the source (section "Python floats"). *)
(* These are avg_temperature_c, district_avg_rainfall_mm, the locals of    *)
(* the recharge estimator and of the water balance, the derived features   *)
(* and annual_runoff_m3 of the vector.  A number that enters as a decimal  *)
(* numeral (a value of the request or of an upstream JSON document) and a  *)
(* number that int() or round() returns is held as the integer count of a  *)
(* unit fixed per field, and Float(n, k) is the float of the numeral where *)
(* the arithmetic reads it:                                                *)
(*   roof_area_m2, available_space_m2, annual_runoff_m3   tenths           *)
(*   clay/sand/silt_pct, elevation_m, infiltration_rate   units            *)
(*   runoff_coefficient                                   tenths           *)
(*   rainfall (mm), humidity (%), wind (km/h), counts     units            *)
(*   temperatures, evaporation_rate_mmday                 hundredths       *)
(*   infiltration_potential, recharge_efficiency          thousandths      *)
(*   liters of the response                               units            *)
(***************************************************************************)
EXTENDS Integers, Sequences, FiniteSets, TLC

VARIABLES
    threads,    \* the handler threads of the server: for each its position
                \* and the local variables of the request it handles
    db,         \* the number of rows of each table
    served,     \* the number of requests accepted so far
    calls,      \* the outputs of the repeated invocations of the components
    default_map \* weather_service.default_weather, shared by all requests

vars == <<threads, db, served, calls, default_map>>

\* The local variables of the request thread 1 handles: its position, its
\* route ("predict", "export" or one of the weather routes), its JSON body
\* or query arguments, what the IMD lookups answer it, the record
\* get_comprehensive_weather_data builds and returns, the features
\* dictionary after the coercion loop, the dictionary handed to the
\* models, the columns and the row of df_encoded, the three model
\* predictions, the body predict answers with, the HTTP status (0 while
\* the request runs), whether a DatabaseManager call raised, and the table
\* an export request names with what reached the SQL.
pc == threads[1].pc

endpoint == threads[1].endpoint

req == threads[1].req

upstream == threads[1].upstream

weather == threads[1].weather

features == threads[1].features

vector == threads[1].vector

df_encoded == threads[1].df_encoded

ml == threads[1].ml

response == threads[1].response

status == threads[1].status

dbFailed == threads[1].dbFailed

export == threads[1].export

(***************************************************************************)
(* Arithmetic helpers.                                                     *)
(***************************************************************************)

\* Mathematical floor of the rational n/d, d > 0.
Floor(n, d) == n \div d

Max(a, b) == IF a >= b THEN a ELSE b

Min(a, b) == IF a <= b THEN a ELSE b

\* The integer nearest to the rational n/d (d > 0), ties to even.
RoundHalfEven(n, d) ==
    LET q == n \div d
        r == n - q * d
    IN  IF 2 * r < d THEN q
        ELSE IF 2 * r > d THEN q + 1
        ELSE IF q % 2 = 0 THEN q ELSE q + 1

(***************************************************************************)
(* Natural numbers of any size.  The integers of TLC are 32 bits wide; the  *)
(* significand of a Python float takes 53, and the exact product           *)
(* of two of them 106.  A natural number is the sequence of its digits in  *)
(* base 2^14, least significant first, without leading zero digits         *)
(* (<<>> is 0).                                                            *)
(***************************************************************************)

Limb == 2^14

RECURSIVE NatOf(_)
NatOf(n) == IF n = 0 THEN <<>> ELSE <<n % Limb>> \o NatOf(n \div Limb)

RECURSIVE IntOf(_)
IntOf(a) == IF a = <<>> THEN 0 ELSE Head(a) + Limb * IntOf(Tail(a))

\* A digit put below the digits of a.
Cons(digit, a) == IF digit = 0 /\ a = <<>> THEN <<>> ELSE <<digit>> \o a

Rest(a) == IF a = <<>> THEN <<>> ELSE Tail(a)

Low(a) == IF a = <<>> THEN 0 ELSE Head(a)

RECURSIVE NatAddCarry(_, _, _)
NatAddCarry(a, b, carry) ==
    IF a = <<>> /\ b = <<>> THEN NatOf(carry)
    ELSE LET x == Low(a) + Low(b) + carry
         IN  <<x % Limb>> \o NatAddCarry(Rest(a), Rest(b), x \div Limb)

NatAdd(a, b) == NatAddCarry(a, b, 0)

\* a - b for a >= b
RECURSIVE NatSubBorrow(_, _, _)
NatSubBorrow(a, b, borrow) ==
    IF a = <<>> THEN <<>>
    ELSE LET x == Head(a) - Low(b) - borrow
         IN  Cons(x % Limb,
                  NatSubBorrow(Tail(a), Rest(b), IF x < 0 THEN 1 ELSE 0))

NatSub(a, b) == NatSubBorrow(a, b, 0)

RECURSIVE NatLessFrom(_, _, _)
NatLessFrom(a, b, i) ==
    IF i = 0 THEN FALSE
    ELSE IF a[i] # b[i] THEN a[i] < b[i]
    ELSE NatLessFrom(a, b, i - 1)

NatLess(a, b) ==
    IF Len(a) # Len(b) THEN Len(a) < Len(b) ELSE NatLessFrom(a, b, Len(a))

\* a * k + carry for a digit k
RECURSIVE NatMulDigit(_, _, _)
NatMulDigit(a, k, carry) ==
    IF a = <<>> THEN NatOf(carry)
    ELSE LET x == Head(a) * k + carry
         IN  Cons(x % Limb, NatMulDigit(Tail(a), k, x \div Limb))

RECURSIVE NatMul(_, _)
NatMul(a, b) ==
    IF a = <<>> \/ b = <<>> THEN <<>>
    ELSE NatAdd(NatMulDigit(a, Head(b), 0), Cons(0, NatMul(a, Tail(b))))

\* Quotient and remainder of a by a digit d > 0.
RECURSIVE NatDivDigit(_, _)
NatDivDigit(a, d) ==
    IF a = <<>> THEN [q |-> <<>>, r |-> 0]
    ELSE LET high == NatDivDigit(Tail(a), d)
             x    == high.r * Limb + Head(a)
         IN  [q |-> Cons(x \div d, high.q), r |-> x % d]

RECURSIVE Zeros(_)
Zeros(n) == IF n = 0 THEN <<>> ELSE <<0>> \o Zeros(n - 1)

\* a * 2^k
NatShiftLeft(a, k) ==
    IF a = <<>> THEN <<>>
    ELSE Zeros(k \div 14) \o NatMulDigit(a, 2 ^ (k % 14), 0)

\* floor(a / 2^k)
NatShiftRight(a, k) ==
    IF Len(a) <= k \div 14 THEN <<>>
    ELSE NatDivDigit(SubSeq(a, k \div 14 + 1, Len(a)), 2 ^ (k % 14)).q

RECURSIVE BitsOfDigit(_)
BitsOfDigit(x) == IF x = 0 THEN 0 ELSE 1 + BitsOfDigit(x \div 2)

\* The number of binary digits of a.
NatBits(a) ==
    IF a = <<>> THEN 0 ELSE 14 * (Len(a) - 1) + BitsOfDigit(a[Len(a)])

RECURSIVE TrailingZerosOfDigit(_)
TrailingZerosOfDigit(x) ==
    IF x % 2 = 1 THEN 0 ELSE 1 + TrailingZerosOfDigit(x \div 2)

\* The number of zero bits at the low end of a > 0.
RECURSIVE NatTrailingZeros(_)
NatTrailingZeros(a) ==
    IF Head(a) = 0 THEN 14 + NatTrailingZeros(Tail(a))
    ELSE TrailingZerosOfDigit(Head(a))

NatIsOdd(a) == a # <<>> /\ Head(a) % 2 = 1

Digit(a, i) == IF i <= Len(a) THEN a[i] ELSE 0

\* The digit floor(x / b) of a division step, for x < b * Limb and a guess
\* that is not below it.
RECURSIVE QuotientDigit(_, _, _)
QuotientDigit(x, b, guess) ==
    IF NatLess(x, NatMulDigit(b, guess, 0))
    THEN QuotientDigit(x, b, guess - 1)
    ELSE guess

Least(i, j) == IF i < j THEN i ELSE j

\* The guess of a division step: the top two digits of x by the top digit
\* of b, which has n digits (it is at most 2 too large).
DivGuess(x, b, n) ==
    Least((Digit(x, n + 1) * Limb + Digit(x, n)) \div b[n], Limb - 1)

\* A division step with the digit d: d joins the quotient hq, and the
\* remainder is x - b * d.
DivResult(x, hq, b, d) ==
    [q |-> Cons(d, hq), r |-> NatSub(x, NatMulDigit(b, d, 0))]

\* The division step on x, the next digit put below the remainder so far.
DivStep(x, hq, b) ==
    DivResult(x, hq, b, QuotientDigit(x, b, DivGuess(x, b, Len(b))))

\* The next digit taken into the division that gave high.
DivDigit(digit, high, b) == DivStep(Cons(digit, high.r), high.q, b)

\* Quotient and remainder of a by b, whose top digit is at least Limb / 2:
\* long division a digit at a time.
RECURSIVE NatDivLong(_, _)
NatDivLong(a, b) ==
    IF a = <<>> THEN [q |-> <<>>, r |-> <<>>]
    ELSE DivDigit(Head(a), NatDivLong(Tail(a), b), b)

\* The quotient and the remainder qr of a division whose operands were
\* both multiplied by 2^s.
Unscaled(qr, s) == [q |-> qr.q, r |-> NatShiftRight(qr.r, s)]

\* Quotient and remainder of a by b > 0, b brought to a top digit of at
\* least Limb / 2 by the factor 2^s.
NatDivScaled(a, b, s) ==
    Unscaled(NatDivLong(NatShiftLeft(a, s), NatShiftLeft(b, s)), s)

\* Quotient and remainder of a by b > 0.
NatDiv(a, b) == NatDivScaled(a, b, 14 - BitsOfDigit(b[Len(b)]))

(***************************************************************************)
(* Python floats: IEEE-754 binary64 with round-to-nearest, ties-to-even.   *)
(* A float is [neg, m, e] and stands for (-1)^neg * m * 2^e, with m an odd *)
(* natural number below 2^53, or m = 0 with e = 0 and neg = FALSE.  The    *)
(* handlers stay far from the ends of the exponent range, so overflow,     *)
(* subnormals, infinities and NaN are left out, and -0.0 is held as 0.0    *)
(* (the two are equal in Python, and int() and == treat them alike).       *)
(***************************************************************************)

FZero == [neg |-> FALSE, m |-> <<>>, e |-> 0]

\* The float of the exact value m * 2^e, m below 2^53.
FExact(neg, m, e) ==
    IF m = <<>> THEN FZero
    ELSE LET z == NatTrailingZeros(m)
         IN  [neg |-> neg, m |-> NatShiftRight(m, z), e |-> e + z]

\* q + (rest + f) / (2 * half) rounded to the nearest natural, ties to
\* even, for rest < 2 * half and a fraction 0 <= f < 1 that is not zero iff
\* sticky.
RoundNearest(q, rest, half, sticky) ==
    IF NatLess(half, rest) \/ (rest = half /\ (sticky \/ NatIsOdd(q)))
    THEN NatAddCarry(q, <<>>, 1)
    ELSE q

\* (m + f) / 2^s rounded so, q being floor(m / 2^s) and s > 0.
RoundQuotient(m, q, s, sticky) ==
    RoundNearest(q, NatSub(m, NatShiftLeft(q, s)),
                  NatShiftLeft(<<1>>, s - 1), sticky)

RoundShift(m, s, sticky) == RoundQuotient(m, NatShiftRight(m, s), s, sticky)

\* The float nearest to (m + f) * 2^e, m being s bits longer than the 53
\* a float holds.
FNearestBy(neg, m, e, sticky, s) ==
    FExact(neg, IF s <= 0 THEN m ELSE RoundShift(m, s, sticky),
           IF s <= 0 THEN e ELSE e + s)

\* The float nearest to (m + f) * 2^e for a fraction 0 <= f < 1, which is
\* not zero iff sticky; m has at least 54 bits when sticky.
FNearest(neg, m, e, sticky) ==
    FNearestBy(neg, m, e, sticky, NatBits(m) - 53)

\* n with the sign neg
Signed(neg, n) == IF neg THEN -n ELSE n

\* float(n) of the integer n
FloatOf(n) == FExact(n < 0, NatOf(Signed(n < 0, n)), 0)

\* The float nearest to the quotient and remainder qr, times 2^e.
FQuotientOf(neg, qr, e) == FNearest(neg, qr.q, e, qr.r # <<>>)

\* The float nearest to a / b, times 2^e, the quotient of a * 2^s by b
\* having the 54 bits or more that rounding needs.
FQuotientBy(neg, a, b, e, s) ==
    FQuotientOf(neg, NatDiv(NatShiftLeft(a, s), b), e - s)

\* The float nearest to the quotient of the naturals a / b, times 2^e.
FQuotient(neg, a, b, e) ==
    IF a = <<>> THEN FZero
    ELSE FQuotientBy(neg, a, b, e,
                     -Least(0, NatBits(a) - NatBits(b) - 55))

RECURSIVE TenTo(_)
TenTo(k) == IF k = 0 THEN 1 ELSE 10 * TenTo(k - 1)

\* The float nearest to n / 10^k.
Decimal(n, k) ==
    FQuotient(n < 0, NatOf(Signed(n < 0, n)), NatOf(TenTo(k)), 0)

\* dict.update: the keys of e override those of d.
Update(d, e) == e @@ d

EmptyDict == [k \in {} |-> 0]

\* The function f as the table of its values.  TLC holds [x \in S |-> e]
\* as the rule it is written as and applies the rule anew at each lookup;
\* a function made by @@ it holds as its values.
Tabulated(f) == f @@ EmptyDict

\* The value the table holds under the key, or else the value given.
Lookup(table, key, value) ==
    IF key \in DOMAIN table THEN table[key] ELSE value

\* The floats of 0.1, 0.2 ... 1.2 and of 0.01, 0.02 ... 0.30, which the
\* literals of the source and the runoff coefficients are among, by
\* <<n, k>>.  TLC evaluates a definition without parameters once.
Numerals ==
    Tabulated([x \in ((1..12) \X {1}) \cup ((1..30) \X {2}) |->
                  Decimal(x[1], x[2])])

\* The float a decimal numeral denotes, n / 10^k: a literal of the source,
\* a number of a JSON document, float() of a string.
Float(n, k) ==
    IF n % TenTo(k) = 0 THEN FloatOf(n \div TenTo(k))
    ELSE Lookup(Numerals, <<n, k>>, Decimal(n, k))

FNeg(x) == IF x.m = <<>> THEN x ELSE [x EXCEPT !.neg = ~x.neg]

\* The float nearest to the sum of a * 2^e with the sign xn and b * 2^e
\* with the sign yn; less tells whether a < b.
FSumOrdered(xn, a, yn, b, e, less) ==
    FNearest(IF xn # yn /\ less THEN yn ELSE xn,
             IF xn = yn THEN NatAdd(a, b)
             ELSE IF less THEN NatSub(b, a)
             ELSE NatSub(a, b),
             e, FALSE)

FSum(xn, a, yn, b, e) == FSumOrdered(xn, a, yn, b, e, NatLess(a, b))

\* x + y for x and y not zero, both brought to the exponent e.
FAddAt(x, y, e) ==
    FSum(x.neg, NatShiftLeft(x.m, x.e - e),
         y.neg, NatShiftLeft(y.m, y.e - e), e)

\* x + y
FAdd(x, y) ==
    IF x.m = <<>> THEN y
    ELSE IF y.m = <<>> THEN x
    ELSE FAddAt(x, y, Least(x.e, y.e))

\* x - y
FSub(x, y) == FAdd(x, FNeg(y))

\* x * y
FMul(x, y) == FNearest(x.neg # y.neg, NatMul(x.m, y.m), x.e + y.e, FALSE)

\* x / y, y not zero
FDiv(x, y) == FQuotient(x.neg # y.neg, x.m, y.m, x.e - y.e)

\* a < b read with the sign neg on both.
SignedLess(neg, a, b) == IF neg THEN NatLess(b, a) ELSE NatLess(a, b)

\* x < y for x and y of one sign, both brought to the exponent e.
FLessAt(x, y, e) ==
    SignedLess(x.neg, NatShiftLeft(x.m, x.e - e), NatShiftLeft(y.m, y.e - e))

\* x < y
FLess(x, y) ==
    IF x.neg # y.neg THEN x.neg ELSE FLessAt(x, y, Least(x.e, y.e))

\* max(x, y) and min(x, y) of Python: the first argument unless the second
\* is greater (smaller).
FMax(x, y) == IF FLess(x, y) THEN y ELSE x

FMin(x, y) == IF FLess(y, x) THEN y ELSE x

\* int(x): truncation toward zero
FInt(x) ==
    Signed(x.neg, IntOf(IF x.e >= 0 THEN NatShiftLeft(x.m, x.e)
                        ELSE NatShiftRight(x.m, -x.e)))

\* The integer nearest to a * 2^e with the sign neg, ties to even.
FRoundScaled(neg, a, e) ==
    Signed(neg, IntOf(IF e >= 0 THEN NatShiftLeft(a, e)
                      ELSE RoundShift(a, -e, FALSE)))

\* round(x, k), in units of 10^-k: the decimal with k places nearest to the
\* exact value of the float, ties to even.
FRound(x, k) == FRoundScaled(x.neg, NatMulDigit(x.m, TenTo(k), 0), x.e)

RECURSIVE SumSeq(_)
SumSeq(s) == IF s = <<>> THEN 0 ELSE Head(s) + SumSeq(Tail(s))

(***************************************************************************)
(* weather_service.py                                                      *)
(***************************************************************************)

\* IMDWeatherService.default_weather
default_weather ==
    [annual_rainfall_mm |-> 1200, max_daily_rainfall_mm |-> 50,
     rainy_days_count |-> 120, avg_temperature_c |-> FloatOf(25),
     evaporation_rate_mmday |-> 450, humidity_percent |-> 70,
     wind_speed_kmh |-> 10, pressure_hpa |-> 1013, uv_index |-> 5]

\* dict.get(key, default) on a weather record
Get(d, key, default) == IF key \in DOMAIN d THEN d[key] ELSE default

\* A value of the upstream JSON that is not a number (null, or a string
\* float() rejects): arithmetic on it raises TypeError.
NonNumeric == -1000000

\* The same in a field that holds a float.
NonNumericFloat == [neg |-> FALSE, m |-> <<>>, e |-> NonNumeric]

\* _get_current_weather_data / _parse_current_weather: {} when the call
\* raises, answers a non-2xx status or the body is not a JSON object.
CurrentWeather(cur) ==
    IF ~cur.ok THEN EmptyDict
    ELSE [current_temperature_c |-> cur.temperature,
          current_humidity_percent |-> cur.humidity,
          current_wind_speed_kmh |-> cur.wind_speed,
          current_pressure_hpa |-> 1013,
          current_weather_condition |-> "Clear",
          last_updated |-> "now"]

\* data[:7]
FirstSeven(days) == IF Len(days) <= 7 THEN days ELSE SubSeq(days, 1, 7)

\* _get_7day_forecast / _parse_forecast_data
Forecast(fc) ==
    IF ~fc.ok THEN EmptyDict
    ELSE LET days == IF fc.isList THEN FirstSeven(fc.days) ELSE <<>>
         IN  [forecast_days |-> days, forecast_period_days |-> Len(days)]

\* A district parser that stores the average, to the millimetre, as the
\* annual rainfall.
DistrictRainfallAsAnnual(rains) ==
    [annual_rainfall_mm |->
        IF Len(rains) > 0 THEN RoundHalfEven(SumSeq(rains), Len(rains))
        ELSE 1200,
     district_rainfall_data_points |-> Len(rains)]

\* total_rainfall += float(district['rainfall']), in the order of the list
RECURSIVE TotalRainfall(_, _)
TotalRainfall(rains, total) ==
    IF rains = <<>> THEN total
    ELSE TotalRainfall(Tail(rains), FAdd(total, FloatOf(Head(rains))))

\* _parse_district_rainfall: total_rainfall / count, the average of the
\* listed rainfalls.
DistrictRainfall(rains) ==
    [district_avg_rainfall_mm |->
        IF Len(rains) > 0
        THEN FDiv(TotalRainfall(rains, FZero), FloatOf(Len(rains)))
        ELSE FloatOf(1200),
     district_rainfall_data_points |-> Len(rains)]

\* _get_rainfall_data: three independent lookups, each skipped on failure.
Rainfall(rf) ==
    LET a == IF rf.district.ok THEN DistrictRainfall(rf.district.rains)
             ELSE EmptyDict
        b == IF rf.state.ok
             THEN [state_rainfall_mm |-> rf.state.rainfall,
                   state_name |-> "Unknown"]
             ELSE EmptyDict
        c == IF rf.subdivision.ok
             THEN [subdivision_rainfall_mm |-> rf.subdivision.rainfall,
                   subdivision_name |-> "Unknown"]
             ELSE EmptyDict
    IN  Update(Update(a, b), c)

\* _get_district_data: nowcast and warnings, each skipped on failure.
District(ds) ==
    LET a == IF ds.nowcast
             THEN [nowcast_condition |-> "Normal", nowcast_warning |-> "None",
                   nowcast_timestamp |-> "now"]
             ELSE EmptyDict
        b == IF ds.warning
             THEN [active_warnings |-> <<>>, warning_level |-> "Normal",
                   warning_type |-> "None"]
             ELSE EmptyDict
    IN  Update(a, b)

\* sum(temps) for temps = [max_temp_c + min_temp_c of each day]: sum() adds
\* from 0 in the order of the list (CPython 3.11).
RECURSIVE SumTemps(_, _)
SumTemps(days, total) ==
    IF days = <<>> THEN total
    ELSE SumTemps(Tail(days),
                  FAdd(total, FAdd(Float(Head(days).max_temp_c, 2),
                                   Float(Head(days).min_temp_c, 2))))

RECURSIVE SumRain(_)
SumRain(days) ==
    IF days = <<>> THEN 0 ELSE Head(days).rainfall_mm + SumRain(Tail(days))

RECURSIVE CountRainy(_)
CountRainy(days) ==
    IF days = <<>> THEN 0
    ELSE (IF Head(days).rainfall_mm > 0 THEN 1 ELSE 0) + CountRainy(Tail(days))

\* The data_source written by _calculate_derived_metrics.
DerivedDataSource == "IMD_API"

\* data.get('current_temperature_c', 25) as avg_temp: the number of the
\* upstream document, or its null.
CurrentTemperature(data) ==
    LET t == Get(data, "current_temperature_c", 2500)
    IN  IF t = NonNumeric THEN NonNumericFloat ELSE Float(t, 2)

\* _calculate_derived_metrics: {} when a forecast day holds a non-numeric
\* temperature or rainfall (the arithmetic raises and is caught).  The
\* average is sum(temps) / (2 * len(temps)).
DerivedMetrics(data) ==
    LET days == Get(data, "forecast_days", <<>>)
        has  == days # <<>>
    IN  IF has /\ \E i \in 1..Len(days) : ~days[i].numeric THEN EmptyDict
        ELSE [avg_temperature_c |->
                 IF has
                 THEN FDiv(SumTemps(days, FZero), FloatOf(2 * Len(days)))
                 ELSE CurrentTemperature(data),
              forecast_total_rainfall_mm |-> IF has THEN SumRain(days) ELSE 0,
              forecast_rainy_days |-> IF has THEN CountRainy(days) ELSE 0,
              data_source |-> DerivedDataSource,
              data_timestamp |-> "now"]

\* _combine_weather_data
CombineWeatherData(current, forecast, rainfall, district) ==
    LET combined ==
          Update(Update(Update(Update(default_weather, current), forecast),
                        rainfall), district)
    IN  Update(combined, DerivedMetrics(combined))

\* The evaporation rate without the lower limit:
\* (temp - 10) * (100 - humidity) / 1000 * (1 + wind_speed / 50)
EvaporationRateUnclamped(temp, humidity, wind) ==
    FMul(FDiv(FMul(FSub(temp, FloatOf(10)), FloatOf(100 - humidity)),
              FloatOf(1000)),
         FAdd(FloatOf(1), FDiv(FloatOf(wind), FloatOf(50))))

\* evaporation_rate of _calculate_recharge_metrics (line 386):
\* max(0.1, (temp - 10) * (100 - humidity) / 1000 * (1 + wind_speed / 50))
EvaporationRate(temp, humidity, wind) ==
    FMax(Float(1, 1),
         FMul(FDiv(FMul(FSub(temp, FloatOf(10)), FloatOf(100 - humidity)),
                   FloatOf(1000)),
              FAdd(FloatOf(1), FDiv(FloatOf(wind), FloatOf(50)))))

\* The infiltration potential without the cap: annual_rainfall / 2000
InfiltrationPotentialUncapped(rain) == FDiv(FloatOf(rain), FloatOf(2000))

\* infiltration_potential (line 390): min(1.0, annual_rainfall / 2000)
InfiltrationPotential(rain) ==
    FMin(FloatOf(1), FDiv(FloatOf(rain), FloatOf(2000)))

\* The efficiency clamped at zero: max(0, recharge_efficiency).
RechargeEfficiencyClamped(infiltration_potential, evaporation_rate) ==
    FMax(FZero,
         FMul(infiltration_potential,
              FSub(FloatOf(1), FDiv(evaporation_rate, FloatOf(10)))))

\* recharge_efficiency (line 393):
\* infiltration_potential * (1 - evaporation_rate / 10), on the unrounded
\* locals
RechargeEfficiency(infiltration_potential, evaporation_rate) ==
    FMul(infiltration_potential,
         FSub(FloatOf(1), FDiv(evaporation_rate, FloatOf(10))))

\* The seasons with December counted as Post-Monsoon.
SeasonalityDecemberPostMonsoon(month) ==
    LET season == IF month \in {6, 7, 8, 9} THEN <<"Monsoon", 15>>
                  ELSE IF month \in {3, 4, 5} THEN <<"Pre-Monsoon", 8>>
                  ELSE IF month \in {10, 11, 12} THEN <<"Post-Monsoon", 12>>
                  ELSE <<"Winter", 5>>
    IN  [current_season |-> season[1], recharge_factor |-> season[2],
         seasonal_rainfall_adjustment |-> season[2]]

\* _calculate_seasonality, the factors in tenths
Seasonality(month) ==
    LET season == IF month \in {6, 7, 8, 9} THEN <<"Monsoon", 15>>
                  ELSE IF month \in {3, 4, 5} THEN <<"Pre-Monsoon", 8>>
                  ELSE IF month \in {10, 11} THEN <<"Post-Monsoon", 12>>
                  ELSE <<"Winter", 5>>
    IN  [current_season |-> season[1], recharge_factor |-> season[2],
         seasonal_rainfall_adjustment |-> season[2]]

\* The bands with inclusive thresholds (>= instead of >).
MonsoonIntensityInclusive(rain, max_daily) ==
    LET band == IF rain >= 2000 THEN <<"Very High", 9>>
                ELSE IF rain >= 1500 THEN <<"High", 7>>
                ELSE IF rain >= 1000 THEN <<"Moderate", 5>>
                ELSE IF rain >= 500 THEN <<"Low", 3>>
                ELSE <<"Very Low", 1>>
    IN  [monsoon_intensity |-> band[1], intensity_score |-> band[2],
         peak_rainfall_capacity |-> max_daily,
         annual_rainfall_classification |-> band[1]]

\* _calculate_monsoon_intensity, the score in tenths
MonsoonIntensity(rain, max_daily) ==
    LET band == IF rain > 2000 THEN <<"Very High", 9>>
                ELSE IF rain > 1500 THEN <<"High", 7>>
                ELSE IF rain > 1000 THEN <<"Moderate", 5>>
                ELSE IF rain > 500 THEN <<"Low", 3>>
                ELSE <<"Very Low", 1>>
    IN  [monsoon_intensity |-> band[1], intensity_score |-> band[2],
         peak_rainfall_capacity |-> max_daily,
         annual_rainfall_classification |-> band[1]]

(***************************************************************************)
(* The answers of the upstream lookups the specifications are explored     *)
(* with.                                                                   *)
(***************************************************************************)

Day(hi, lo, rain, numeric) ==
    [max_temp_c |-> hi, min_temp_c |-> lo, rainfall_mm |-> rain,
     numeric |-> numeric]

\* A day of 30/22 C with rain and a day of 34/24 C without.  One of each
\* average 27.5 C; four of the first and three of the second average
\* 382/14 C, which no decimal holds.
WetDay == Day(3000, 2200, 12, TRUE)

DryDay == Day(3400, 2400, 0, TRUE)

\* The answer of the current-weather lookup; ok is FALSE when the call
\* raises, times out, answers an error status or a body that does not parse.
CurrentFails ==
    [ok |-> FALSE, temperature |-> 2500, humidity |-> 70, wind_speed |-> 10]

CurrentResponses ==
    {CurrentFails,
     [ok |-> TRUE, temperature |-> 2500, humidity |-> 70, wind_speed |-> 10],
     [ok |-> TRUE, temperature |-> 3500, humidity |-> 40, wind_speed |-> 20],
     [ok |-> TRUE, temperature |-> 500, humidity |-> 80, wind_speed |-> 0],
     [ok |-> TRUE, temperature |-> 3000, humidity |-> NonNumeric,
      wind_speed |-> 10],
     [ok |-> TRUE, temperature |-> NonNumeric, humidity |-> 70,
      wind_speed |-> 10]}

ForecastFails == [ok |-> FALSE, isList |-> FALSE, days |-> <<>>]

ForecastResponses ==
    {ForecastFails,
     [ok |-> TRUE, isList |-> FALSE, days |-> <<>>],
     [ok |-> TRUE, isList |-> TRUE, days |-> <<WetDay>>],
     [ok |-> TRUE, isList |-> TRUE, days |-> <<WetDay, DryDay>>],
     [ok |-> TRUE, isList |-> TRUE,
      days |-> <<WetDay, DryDay, WetDay, DryDay, WetDay, DryDay, WetDay,
                 DryDay>>],
     [ok |-> TRUE, isList |-> TRUE,
      days |-> <<Day(0, 0, 0, FALSE)>>]}

RainfallFails ==
    [district |-> [ok |-> FALSE, rains |-> <<>>],
     state |-> [ok |-> FALSE, rainfall |-> 1200],
     subdivision |-> [ok |-> FALSE, rainfall |-> 1200]]

RainfallResponses ==
    {RainfallFails,
     [district |-> [ok |-> TRUE, rains |-> <<800, 1000>>],
      state |-> [ok |-> TRUE, rainfall |-> 900],
      subdivision |-> [ok |-> TRUE, rainfall |-> 2100]],
     [district |-> [ok |-> TRUE, rains |-> <<>>],
      state |-> [ok |-> FALSE, rainfall |-> 1200],
      subdivision |-> [ok |-> FALSE, rainfall |-> 1200]],
     [district |-> [ok |-> FALSE, rains |-> <<>>],
      state |-> [ok |-> TRUE, rainfall |-> 400],
      subdivision |-> [ok |-> TRUE, rainfall |-> 1600]]}

DistrictFails == [nowcast |-> FALSE, warning |-> FALSE]

DistrictResponses ==
    {DistrictFails, [nowcast |-> TRUE, warning |-> TRUE],
     [nowcast |-> TRUE, warning |-> FALSE]}

\* avg_temperature_c, current_humidity_percent, current_wind_speed_kmh and
\* annual_rainfall_mm as _calculate_recharge_metrics reads them (lines
\* 381-384).
Readings(data) ==
    <<Get(data, "avg_temperature_c", FloatOf(25)),
      Get(data, "current_humidity_percent", 70),
      Get(data, "current_wind_speed_kmh", 10),
      Get(data, "annual_rainfall_mm", 1200)>>

\* The rounding of lines 396-398 and the efficiency of line 393, from the
\* locals evaporation_rate and infiltration_potential.
RoundedLocals(evaporation_rate, infiltration_potential) ==
    [evaporation_rate_mmday |-> FRound(evaporation_rate, 2),
     infiltration_potential |-> FRound(infiltration_potential, 3),
     recharge_efficiency |->
         FRound(RechargeEfficiency(infiltration_potential,
                                   evaporation_rate), 3)]

\* Lines 386-393 and the rounding of lines 396-398: the three numbers of
\* the estimator.
RoundedEstimates(temp, humidity, wind, rain) ==
    RoundedLocals(EvaporationRate(temp, humidity, wind),
                  InfiltrationPotential(rain))

\* The readings of the records the upstream answers above combine to, and
\* of default_weather.
ExploredReadings ==
    {r \in {Readings(default_weather)}
           \cup {Readings(CombineWeatherData(CurrentWeather(c), Forecast(f),
                                             Rainfall(rf), District(d))) :
                    c \in CurrentResponses, f \in ForecastResponses,
                    rf \in RainfallResponses, d \in DistrictResponses} :
        r[1] # NonNumericFloat /\ NonNumeric \notin {r[2], r[3], r[4]}}

\* Their estimates.  TLC evaluates a definition without parameters once, so
\* a behaviour looks the numbers of an explored record up instead of
\* repeating the float arithmetic.
ExploredEstimates ==
    Tabulated([r \in ExploredReadings |->
                  RoundedEstimates(r[1], r[2], r[3], r[4])])

Estimates(temp, humidity, wind, rain) ==
    Lookup(ExploredEstimates, <<temp, humidity, wind, rain>>,
           RoundedEstimates(temp, humidity, wind, rain))

\* The estimator merged with setdefault: an evaporation_rate_mmday the
\* record already holds is kept.
RechargeMetricsKeepsEvaporation(data, month) ==
    LET temp == Get(data, "avg_temperature_c", FloatOf(25))
        hum  == Get(data, "current_humidity_percent", 70)
        wind == Get(data, "current_wind_speed_kmh", 10)
        rain == Get(data, "annual_rainfall_mm", 1200)
        estimates == Estimates(temp, hum, wind, rain)
    IN  IF temp = NonNumericFloat \/ NonNumeric \in {hum, wind, rain}
        THEN EmptyDict
        ELSE
        [evaporation_rate_mmday |->
             Get(data, "evaporation_rate_mmday",
                 estimates.evaporation_rate_mmday),
         infiltration_potential |-> estimates.infiltration_potential,
         recharge_efficiency |-> estimates.recharge_efficiency,
         recharge_seasonality |-> Seasonality(month),
         monsoon_intensity |->
             MonsoonIntensity(rain, Get(data, "max_daily_rainfall_mm", 50))]

\* The dictionary of lines 395-401, from the three rounded numbers and the
\* two nested dictionaries.
MetricsOf(estimates, seasonality, intensity) ==
    [evaporation_rate_mmday |-> estimates.evaporation_rate_mmday,
     infiltration_potential |-> estimates.infiltration_potential,
     recharge_efficiency |-> estimates.recharge_efficiency,
     recharge_seasonality |-> seasonality,
     monsoon_intensity |-> intensity]

\* _calculate_recharge_metrics; the arithmetic of lines 386-393 raises on a
\* value that is not a number and the except branch returns {}.  The three
\* locals are floats; the dictionary holds round(evaporation_rate, 2),
\* round(infiltration_potential, 3) and round(recharge_efficiency, 3),
\* the numbers of RoundedEstimates.
RechargeMetrics(data, month) ==
    IF \/ Get(data, "avg_temperature_c", FloatOf(25)) = NonNumericFloat
       \/ NonNumeric \in {Get(data, "current_humidity_percent", 70),
                          Get(data, "current_wind_speed_kmh", 10),
                          Get(data, "annual_rainfall_mm", 1200)}
    THEN EmptyDict
    ELSE MetricsOf(Estimates(Get(data, "avg_temperature_c", FloatOf(25)),
                             Get(data, "current_humidity_percent", 70),
                             Get(data, "current_wind_speed_kmh", 10),
                             Get(data, "annual_rainfall_mm", 1200)),
                   Seasonality(month),
                   MonsoonIntensity(Get(data, "annual_rainfall_mm", 1200),
                                    Get(data, "max_daily_rainfall_mm", 50)))

\* data.update(self._calculate_recharge_metrics(data)) (lines 96 and 489)
WithRechargeMetrics(data, month) == Update(data, RechargeMetrics(data, month))

\* _get_fallback_weather_data
FallbackWeatherData(latitude, longitude, month) ==
    WithRechargeMetrics(
        Update(default_weather,
               [latitude |-> latitude, longitude |-> longitude,
                data_source |-> "FALLBACK", data_timestamp |-> "now",
                api_status |-> "Failed - Using fallback data"]),
        month)

\* IMDWeatherService.get_comprehensive_weather_data.  Every lookup catches
\* its own failures and returns {}, so a failing lookup does not reach the
\* except branch; up.raises stands for any other exception escaping inside
\* the try block.
GetComprehensiveWeatherData(latitude, longitude, up) ==
    IF up.raises THEN FallbackWeatherData(latitude, longitude, up.month)
    ELSE WithRechargeMetrics(
             CombineWeatherData(CurrentWeather(up.current),
                                Forecast(up.forecast), Rainfall(up.rainfall),
                                District(up.district)),
             up.month)

(***************************************************************************)
(* api.py: the /predict handler                                            *)
(***************************************************************************)

\* A JSON value of the request body: k is "absent" (key missing), "null",
\* "num" (a JSON number v), "numstr" (a string float() parses to v) or
\* "badstr" (a string float() rejects).
Absent == [k |-> "absent", v |-> 0]

Null == [k |-> "null", v |-> 0]

Num(n) == [k |-> "num", v |-> n]

NumStr(n) == [k |-> "numstr", v |-> n]

BadStr == [k |-> "badstr", v |-> 0]

\* data.get(key, default)
DataGet(raw, default) == IF raw.k = "absent" THEN default ELSE raw

\* float(x) succeeds on numbers and on numeric strings only.
FloatOk(raw) == raw.k \in {"num", "numstr"}

\* The coercion loop of predict: float(x), or 0.0 when float raises.
Coerce(raw) == IF FloatOk(raw) THEN raw.v ELSE 0

\* daily_usage = 800 liters per day
daily_usage == 800

\* monsoon_days = 90
monsoon_days == 90

MonthNames ==
    <<"January", "February", "March", "April", "May", "June", "July",
      "August", "September", "October", "November", "December">>

\* monthly_rainfall_distribution: the decimal shares 0.01 ... 0.25, in
\* hundredths
monthly_rainfall_distribution == <<1, 1, 2, 3, 5, 15, 25, 20, 15, 8, 3, 2>>

days_in_month == <<31, 28, 31, 30, 31, 30, 31, 31, 30, 31, 30, 31>>

\* annual_rainfall_m = features['annual_rainfall_mm'] / 1000
\* annual_harvestable = roof_area * annual_rainfall_m * runoff_coefficient
\* * 1000, a float (roof and coefficient are given in tenths, the rainfall
\* in mm).
AnnualHarvestable(roof, rain, rc) ==
    FMul(FMul(FMul(Float(roof, 1), FDiv(FloatOf(rain), FloatOf(1000))),
              Float(rc, 1)),
         FloatOf(1000))

\* month_harvestable = annual_harvestable * percentage
MonthHarvestable(annual, m) ==
    FMul(annual, Float(monthly_rainfall_distribution[m], 2))

\* monthly_harvestable[month] = round(month_harvestable)
MonthlyHarvestableRounded(annual, m) == FRound(MonthHarvestable(annual, m), 0)

\* monthly_harvestable[month] = int(month_harvestable)
MonthlyHarvestableEntry(annual, m) == FInt(MonthHarvestable(annual, m))

\* monthly_usage = daily_usage * 30: every month taken as 30 days.
MonthlyUsageThirtyDays(m) == daily_usage * 30

\* monthly_usage = daily_usage * days_in_month[month]
MonthlyUsage(m) == daily_usage * days_in_month[m]

\* storage_requirement = max(monthly_usage - month_harvestable, 0)
StorageRequirement(annual, m) ==
    FMax(FSub(FloatOf(MonthlyUsage(m)), MonthHarvestable(annual, m)), FZero)

\* The storage computed from the truncated monthly_harvestable[month]
\* instead of month_harvestable.
MonthlyStorageFromTruncated(annual, m) ==
    FInt(FMul(FMax(FloatOf(MonthlyUsage(m)
                           - MonthlyHarvestableEntry(annual, m)), FZero),
              Float(12, 1)))

\* The 20% buffer applied to the usage instead of the deficit:
\* int(max(monthly_usage * 1.2 - month_harvestable, 0))
MonthlyStorageBufferedUsage(annual, m) ==
    FInt(FMax(FSub(FMul(FloatOf(MonthlyUsage(m)), Float(12, 1)),
                   MonthHarvestable(annual, m)), FZero))

\* monthly_storage_requirements[month] = int(storage_requirement * 1.2)
MonthlyStorageEntry(annual, m) ==
    FInt(FMul(StorageRequirement(annual, m), Float(12, 1)))

\* tank_capacity = max(daily_usage * monsoon_days - annual_harvestable * 0.3,
\* 0): the pattern of storage_requirement applied to the tank.
TankCapacityShortfall(annual) ==
    FMax(FSub(FloatOf(daily_usage * monsoon_days), FMul(annual, Float(3, 1))),
         FZero)

\* tank_capacity = min(annual_harvestable * 0.3, daily_usage * monsoon_days)
TankCapacity(annual) ==
    FMin(FMul(annual, Float(3, 1)), FloatOf(daily_usage * monsoon_days))

\* The two dictionaries the loop over monthly_rainfall_distribution fills,
\* in insertion order.
MonthlyHarvestable(annual) ==
    [m \in 1..12 |-> [month |-> MonthNames[m],
                      liters |-> MonthlyHarvestableEntry(annual, m)]]

MonthlyStorageRequirements(annual) ==
    [m \in 1..12 |-> [month |-> MonthNames[m],
                      liters |-> MonthlyStorageEntry(annual, m)]]

\* The keys of weather_data that lines 56-60 index.
WeatherKeys ==
    {"annual_rainfall_mm", "max_daily_rainfall_mm", "rainy_days_count",
     "avg_temperature_c", "evaporation_rate_mmday"}

\* weather_data[key] raises KeyError on a missing key.
WeatherKeyMissing(w) == ~(WeatherKeys \subseteq DOMAIN w)

\* harvest_potential = annual_rainfall_mm * roof_area_m2 * runoff_coefficient
\* / 1000
HarvestPotential(rain, roof, rc) ==
    FDiv(FMul(FMul(FloatOf(rain), Float(roof, 1)), Float(rc, 1)),
         FloatOf(1000))

\* The coercion loop of predict on a value copied from the weather record:
\* float(x), or 0.0 when x is not a number.
CoerceWeather(v) == IF v = NonNumeric THEN 0 ELSE v

\* The same on avg_temperature_c, held as a float.
CoerceAverage(v) == IF v = NonNumericFloat THEN FZero ELSE v

\* The features dictionary after the coercion loop (lines 55-88), which
\* passes over the five fields copied from the weather record as well, and
\* the derived harvest_potential (line 95), for the fields the water
\* balance reads.
Features(r, w) ==
    [annual_rainfall_mm |-> CoerceWeather(Get(w, "annual_rainfall_mm", 0)),
     max_daily_rainfall_mm |->
         CoerceWeather(Get(w, "max_daily_rainfall_mm", 0)),
     rainy_days_count |-> CoerceWeather(Get(w, "rainy_days_count", 0)),
     avg_temperature_c |->
         CoerceAverage(Get(w, "avg_temperature_c", FZero)),
     evaporation_rate_mmday |->
         CoerceWeather(Get(w, "evaporation_rate_mmday", 0)),
     harvest_potential |->
         HarvestPotential(CoerceWeather(Get(w, "annual_rainfall_mm", 0)),
                          Coerce(r.roof_area_m2),
                          Coerce(DataGet(r.runoff_coefficient, Num(8)))),
     clay_pct |-> Coerce(DataGet(r.clay_pct, Num(30))),
     sand_pct |-> Coerce(DataGet(r.sand_pct, Num(40))),
     silt_pct |-> Coerce(DataGet(r.silt_pct, Num(30))),
     latitude |-> Coerce(r.latitude),
     longitude |-> Coerce(r.longitude),
     elevation_m |-> Coerce(DataGet(r.elevation_m, Num(100))),
     infiltration_rate_mmhr |->
         Coerce(DataGet(r.infiltration_rate_mmhr, Num(10))),
     roof_area_m2 |-> Coerce(r.roof_area_m2),
     available_space_m2 |->
         Coerce(DataGet(r.available_space_m2, r.roof_area_m2)),
     runoff_coefficient |-> Coerce(DataGet(r.runoff_coefficient, Num(8))),
     annual_runoff_m3 |-> Coerce(DataGet(r.annual_runoff_m3, Num(0)))]

\* float(data.get('runoff_coefficient', 0.8)) on line 71 is outside the
\* coercion loop's try block.
RunoffCoefficientRaises(r) == ~FloatOk(DataGet(r.runoff_coefficient, Num(8)))

\* roof_area * annual_rainfall_m (lines 102, 106, 133) multiplies the raw
\* request value: None or a string times a float raises TypeError.
RoofAreaRaises(r) == r.roof_area_m2.k # "num"

\* roof_area_m2 / (available_space_m2 + 1) on line 93 raises
\* ZeroDivisionError when the denominator is 0.0.
RoofEfficiencyRaises(f) ==
    FAdd(Float(f.available_space_m2, 1), FloatOf(1)) = FZero

\* Whether the try block of predict raises before the response is built.
PredictRaises(r, w) ==
    \/ WeatherKeyMissing(w)
    \/ RunoffCoefficientRaises(r)
    \/ RoofEfficiencyRaises(Features(r, w))
    \/ RoofAreaRaises(r)

NoMonths == [m \in 1..12 |-> [month |-> MonthNames[m], liters |-> 0]]

NoFeatures ==
    [annual_rainfall_mm |-> 0, max_daily_rainfall_mm |-> 0,
     rainy_days_count |-> 0, avg_temperature_c |-> FZero,
     evaporation_rate_mmday |-> 0, harvest_potential |-> FZero,
     clay_pct |-> 0, sand_pct |-> 0, silt_pct |-> 0, latitude |-> 0,
     longitude |-> 0, elevation_m |-> 0, infiltration_rate_mmhr |-> 0,
     roof_area_m2 |-> 0, available_space_m2 |-> 0, runoff_coefficient |-> 0,
     annual_runoff_m3 |-> 0]

\* features['rainfall_intensity'] =
\*     max_daily_rainfall_mm / (rainy_days_count + 1)
RainfallIntensity(f) ==
    FDiv(FloatOf(f.max_daily_rainfall_mm),
         FAdd(FloatOf(f.rainy_days_count), FloatOf(1)))

\* features['soil_water_capacity'] =
\*     clay_pct * 0.4 + silt_pct * 0.3 + sand_pct * 0.1
SoilWaterCapacity(f) ==
    FAdd(FAdd(FMul(FloatOf(f.clay_pct), Float(4, 1)),
              FMul(FloatOf(f.silt_pct), Float(3, 1))),
         FMul(FloatOf(f.sand_pct), Float(1, 1)))

\* roof_efficiency with another offset of the denominator:
\* roof_area_m2 / (available_space_m2 + 2)
RoofEfficiencyOffsetTwo(f) ==
    FDiv(Float(f.roof_area_m2, 1),
         FAdd(Float(f.available_space_m2, 1), FloatOf(2)))

\* features['roof_efficiency'] = roof_area_m2 / (available_space_m2 + 1)
RoofEfficiency(f) ==
    FDiv(Float(f.roof_area_m2, 1),
         FAdd(Float(f.available_space_m2, 1), FloatOf(1)))

\* features['climate_aridity'] =
\*     evaporation_rate_mmday / ((annual_rainfall_mm / 365) + 0.1)
ClimateAridity(f) ==
    FDiv(Float(f.evaporation_rate_mmday, 2),
         FAdd(FDiv(FloatOf(f.annual_rainfall_mm), FloatOf(365)),
              Float(1, 1)))

\* features['temperature_factor'] = avg_temperature_c / 30
TemperatureFactor(f) == FDiv(f.avg_temperature_c, FloatOf(30))

\* features['elevation_factor'] = elevation_m / 1000
ElevationFactor(f) == FDiv(FloatOf(f.elevation_m), FloatOf(1000))

\* The derived features of predict (lines 91-97).
DerivedFeatures(f) ==
    [rainfall_intensity |-> RainfallIntensity(f),
     soil_water_capacity |-> SoilWaterCapacity(f),
     roof_efficiency |-> RoofEfficiency(f),
     climate_aridity |-> ClimateAridity(f),
     harvest_potential |->
         HarvestPotential(f.annual_rainfall_mm, f.roof_area_m2,
                          f.runoff_coefficient),
     temperature_factor |-> TemperatureFactor(f),
     elevation_factor |-> ElevationFactor(f)]

\* The derived columns of the training pipeline (ml_pipeline.py lines
\* 47-53), computed from a row of the dataset.
TrainingDerivedFeatures(df) ==
    [rainfall_intensity |->
         FDiv(FloatOf(df.max_daily_rainfall_mm),
              FAdd(FloatOf(df.rainy_days_count), FloatOf(1))),
     soil_water_capacity |->
         FAdd(FAdd(FMul(FloatOf(df.clay_pct), Float(4, 1)),
                   FMul(FloatOf(df.silt_pct), Float(3, 1))),
              FMul(FloatOf(df.sand_pct), Float(1, 1))),
     roof_efficiency |->
         FDiv(Float(df.roof_area_m2, 1),
              FAdd(Float(df.available_space_m2, 1), FloatOf(1))),
     climate_aridity |->
         FDiv(Float(df.evaporation_rate_mmday, 2),
              FAdd(FDiv(FloatOf(df.annual_rainfall_mm), FloatOf(365)),
                   Float(1, 1))),
     harvest_potential |->
         FDiv(FMul(FMul(FloatOf(df.annual_rainfall_mm),
                        Float(df.roof_area_m2, 1)),
                   Float(df.runoff_coefficient, 1)),
              FloatOf(1000)),
     temperature_factor |-> FDiv(df.avg_temperature_c, FloatOf(30)),
     elevation_factor |-> FDiv(FloatOf(df.elevation_m), FloatOf(1000))]

\* annual_runoff_m3 passed through whatever its value: lines 100-102 left
\* out.
AnnualRunoffPassedThrough(r, f) == Float(f.annual_runoff_m3, 1)

\* Lines 100-102: annual_runoff_m3 is recomputed from the raw roof_area when
\* the coerced value is 0:
\* roof_area * (annual_rainfall_mm / 1000) * runoff_coefficient
AnnualRunoff(r, f) ==
    IF f.annual_runoff_m3 = 0
    THEN FMul(FMul(Float(r.roof_area_m2.v, 1),
                   FDiv(FloatOf(f.annual_rainfall_mm), FloatOf(1000))),
              Float(f.runoff_coefficient, 1))
    ELSE Float(f.annual_runoff_m3, 1)

\* The features dictionary handed to pd.DataFrame (line 109): the coerced
\* fields, the derived features and annual_runoff_m3 after lines 100-102.
FeatureVector(r, f) ==
    Update(Update(f, DerivedFeatures(f)),
           [annual_runoff_m3 |-> AnnualRunoff(r, f), roof_type |-> r.roof_type])

NoVector == EmptyDict

\* model_features: X.columns of the training pipeline, i.e. the numeric
\* features and the derived features of ml_pipeline.py in their order,
\* followed by one indicator column per roof type of the training set.
model_features ==
    <<"annual_rainfall_mm", "max_daily_rainfall_mm", "rainy_days_count",
      "avg_temperature_c", "evaporation_rate_mmday", "clay_pct", "sand_pct",
      "silt_pct", "latitude", "longitude", "elevation_m", "roof_area_m2",
      "available_space_m2", "infiltration_rate_mmhr", "runoff_coefficient",
      "annual_runoff_m3", "rainfall_intensity", "soil_water_capacity",
      "roof_efficiency", "climate_aridity", "harvest_potential",
      "temperature_factor", "elevation_factor", "roof_type_Concrete",
      "roof_type_Metal", "roof_type_Tile">>

\* roof_type of a request without one: data.get('roof_type') is None.
NoRoofType == "None"

\* The name get_dummies gives the indicator column of a roof type:
\* 'roof_type_' + value.
RoofTypeColumn ==
    [Concrete |-> "roof_type_Concrete", Metal |-> "roof_type_Metal",
     Tile |-> "roof_type_Tile", Thatch |-> "roof_type_Thatch"]

\* pd.get_dummies(df_features, columns=['roof_type']) on the one-row frame:
\* the roof_type column is replaced by the indicator column of its value,
\* by no column when the value is None.
GetDummies(v) ==
    LET rest == [k \in (DOMAIN v) \ {"roof_type"} |-> v[k]]
    IN  IF v.roof_type = NoRoofType THEN rest
        ELSE (RoofTypeColumn[v.roof_type] :> 1) @@ rest

\* Lines 116-121 without the loop that adds the missing columns: only the
\* required columns the frame holds are kept.
AlignWithoutFill(df) ==
    LET kept == SelectSeq(model_features, LAMBDA col : col \in DOMAIN df)
    IN  [columns |-> kept, values |-> [i \in 1..Len(kept) |-> df[kept[i]]]]

\* Lines 116-121: a required column the frame lacks is added with 0, and
\* df_encoded[required_columns] keeps the required columns in their order.
\* The frame is kept as the sequence of its column names and the sequence
\* of the values of its row.
AlignColumns(df) ==
    LET produced == DOMAIN df
    IN  [columns |-> model_features,
         values |-> [i \in 1..Len(model_features) |->
                        IF model_features[i] \in produced
                        THEN df[model_features[i]] ELSE 0]]

NoColumns == [columns |-> <<>>, values |-> <<>>]

NoResponse ==
    [error |-> "", feasibility_category |-> "", feasibility_score |-> 0,
     recommended_structure |-> "", recommended_tank_capacity_liters |-> 0,
     monthly_storage_requirements |-> NoMonths,
     monthly_harvestable |-> NoMonths, annual_harvestable_liters |-> 0,
     prediction_id |-> 0]

\* The body of the 500 answer of the except branch (lines 244-249).
ErrorResponse == [NoResponse EXCEPT !.error = "Prediction failed"]

(***************************************************************************)
(* The request bodies the specifications are explored with.                *)
(***************************************************************************)

\* roof_area_m2 of the request (tenths of m2): missing, unparsable, a numeric
\* string, -1.2, zero, 1 (fractional monthly harvests), 100 (the worked
\* scenario), 104 (July in surplus), 250 (30% of the harvest = 72000) and
\* 300 (tank capacity capped).
RoofAreaValues ==
    {Absent, BadStr, NumStr(1000), Num(-12), Num(0), Num(10), Num(1000),
     Num(1040), Num(2500), Num(3000)}

AvailableSpaceValues == {Absent, BadStr, Num(500), Num(-10)}

RunoffCoefficientValues == {Absent, BadStr, Num(5), Num(10)}

AnnualRunoffValues == {Absent, BadStr, Num(0), Num(50)}

LatitudeValues == {Num(286), BadStr}

\* A request for a concrete roof of 100 m2 that leaves the other fields
\* out.
PlainSite ==
    [latitude |-> Num(286), longitude |-> Num(772), roof_type |-> "Concrete",
     roof_area_m2 |-> Num(1000), available_space_m2 |-> Absent,
     runoff_coefficient |-> Absent, annual_runoff_m3 |-> Absent]

\* The fields of the request the models of earlier sections read: the
\* requests that differ from the plain one in at most two of them.
SiteInputs ==
    {s \in [latitude : LatitudeValues, longitude : {Num(772)},
            roof_type : {"Concrete"}, roof_area_m2 : RoofAreaValues,
            available_space_m2 : AvailableSpaceValues,
            runoff_coefficient : RunoffCoefficientValues,
            annual_runoff_m3 : AnnualRunoffValues] :
        Cardinality({k \in DOMAIN PlainSite : s[k] # PlainSite[k]}) <= 2}

\* clay_pct, sand_pct, silt_pct, elevation_m and infiltration_rate_mmhr of
\* the request: all absent, all given, and given with unusable values.
SoilAbsent ==
    [clay_pct |-> Absent, sand_pct |-> Absent, silt_pct |-> Absent,
     elevation_m |-> Absent, infiltration_rate_mmhr |-> Absent]

SoilGiven ==
    {[clay_pct |-> Num(20), sand_pct |-> Num(50), silt_pct |-> Num(30),
      elevation_m |-> Num(250), infiltration_rate_mmhr |-> Num(15)],
     [clay_pct |-> BadStr, sand_pct |-> Null, silt_pct |-> NumStr(25),
      elevation_m |-> BadStr, infiltration_rate_mmhr |-> Null],
     [clay_pct |-> Num(0), sand_pct |-> BadStr, silt_pct |-> Absent,
      elevation_m |-> Num(0), infiltration_rate_mmhr |-> BadStr]}

\* The requests whose soil fields are given: a 100 m2 roof.
SoilSites ==
    {s \in SiteInputs :
        /\ s.latitude = Num(286)
        /\ s.roof_area_m2 = Num(1000)
        /\ s.annual_runoff_m3 \in {Absent, Num(50)}}

\* roof_type of the request: of the training set, unknown to it, and none.
RoofTypeValues == {"Concrete", "Metal", "Thatch", NoRoofType}

\* The requests whose roof type varies: a 100 m2 roof, the rest left out.
RoofTypeSites ==
    {[s EXCEPT !.roof_type = t] :
        s \in {x \in SoilSites : /\ x.available_space_m2 = Absent
                                  /\ x.runoff_coefficient = Absent
                                  /\ x.annual_runoff_m3 = Absent},
        t \in RoofTypeValues \ {"Concrete"}}

\* Roofs of 1.5 to 35.5 m2 with runoff coefficients of 0.1 to 1.0, the rest
\* left out: on them a product of the water balance is a float next to a
\* whole number of liters (1.5 m2 at 0.3 gives 26.999999999999996 l in May).
FractionalSites ==
    {[latitude |-> Num(286), longitude |-> Num(772), roof_type |-> "Concrete",
      roof_area_m2 |-> Num(a), available_space_m2 |-> Absent,
      runoff_coefficient |-> Num(c), annual_runoff_m3 |-> Absent] :
        a \in {15, 45, 75, 337, 350, 355}, c \in {1, 3, 5, 6, 8, 9, 10}}

Requests ==
    {s @@ SoilAbsent : s \in SiteInputs}
    \cup {s @@ SoilAbsent : s \in FractionalSites}
    \cup {s @@ soil : s \in SoilSites, soil \in SoilGiven}
    \cup {s @@ SoilAbsent : s \in RoofTypeSites}

\* Lines 127-180 and the conversions of lines 192-200: the water balance
\* of a roof as the response holds it.
WaterBalanceOf(annual) ==
    [recommended_tank_capacity_liters |-> FInt(TankCapacity(annual)),
     monthly_storage_requirements |-> MonthlyStorageRequirements(annual),
     monthly_harvestable |-> MonthlyHarvestable(annual),
     annual_harvestable_liters |-> FInt(annual)]

WaterBalance(roof, rain, rc) ==
    WaterBalanceOf(AnnualHarvestable(roof, rain, rc))

\* Roof area, annual rainfall and runoff coefficient of the requests above
\* that reach the water balance.
ExploredSites ==
    {<<r.roof_area_m2.v, default_weather.annual_rainfall_mm,
       Coerce(DataGet(r.runoff_coefficient, Num(8)))>> :
        r \in {x \in Requests : x.roof_area_m2.k = "num"}}

\* Their water balances, computed once and looked up by the behaviours.
ExploredBalances ==
    Tabulated([site \in ExploredSites |->
                  WaterBalance(site[1], site[2], site[3])])

Balances(roof, rain, rc) ==
    Lookup(ExploredBalances, <<roof, rain, rc>>, WaterBalance(roof, rain, rc))

\* The response dictionary of lines 186-212, from the model outputs and
\* the water balance.
ResponseOf(m, balance) ==
    [error |-> "",
     feasibility_category |-> m.category,
     feasibility_score |-> m.score,
     recommended_structure |-> m.structure,
     recommended_tank_capacity_liters |->
         balance.recommended_tank_capacity_liters,
     monthly_storage_requirements |-> balance.monthly_storage_requirements,
     monthly_harvestable |-> balance.monthly_harvestable,
     annual_harvestable_liters |-> balance.annual_harvestable_liters,
     prediction_id |-> 0]

\* The response dictionary of lines 186-212.
BuildResponse(r, f, m) ==
    ResponseOf(m, Balances(r.roof_area_m2.v, f.annual_rainfall_mm,
                           f.runoff_coefficient))

(***************************************************************************)
(* Inputs                                                                  *)
(***************************************************************************)

\* The number of requests a behaviour accepts.
MaxRequests == 2

\* Query arguments of GET /weather: lat and lon after type=float (missing or
\* unparsable arguments arrive as None).
WeatherQueries ==
    [latitude : {Null, Num(0), Num(286)}, longitude : {Null, Num(772)},
     roof_type : {""}, roof_area_m2 : {Absent},
     available_space_m2 : {Absent}, runoff_coefficient : {Absent},
     annual_runoff_m3 : {Absent}, clay_pct : {Absent}, sand_pct : {Absent},
     silt_pct : {Absent}, elevation_m : {Absent},
     infiltration_rate_mmhr : {Absent}]

NoRequest ==
    [latitude |-> Absent, longitude |-> Absent, roof_type |-> "",
     roof_area_m2 |-> Absent, available_space_m2 |-> Absent,
     runoff_coefficient |-> Absent, annual_runoff_m3 |-> Absent,
     clay_pct |-> Absent, sand_pct |-> Absent, silt_pct |-> Absent,
     elevation_m |-> Absent, infiltration_rate_mmhr |-> Absent]

Months == 1..12

\* Every combination of answers of the upstream lookups and the calendar
\* month of the call; and the calls in which an exception escapes.
Upstreams ==
    [current : CurrentResponses, forecast : ForecastResponses,
     rainfall : RainfallResponses, district : DistrictResponses,
     month : Months, raises : {FALSE}]
    \cup
    [current : {CurrentFails}, forecast : {ForecastFails},
     rainfall : {RainfallFails}, district : {DistrictFails},
     month : Months, raises : {TRUE}]

\* Every HTTP call raises or answers a non-200 status.
AllFail(up) ==
    /\ up.current = CurrentFails
    /\ up.forecast = ForecastFails
    /\ up.rainfall = RainfallFails
    /\ up.district = DistrictFails

\* The upstream answers predict is explored with: all lookups fail, an
\* exception escapes, all succeed with a forecast of one day (numeric or
\* not) or of eight, and the current temperature alone is answered and is
\* not a number.
PredictUpstreams ==
    {up \in Upstreams :
        /\ up.month = 7
        /\ \/ AllFail(up)
           \/ /\ up.current.ok /\ up.current.temperature = 3500
              /\ up.forecast.ok /\ Len(up.forecast.days) \in {1, 8}
              /\ up.rainfall.district.ok /\ up.rainfall.state.ok
              /\ up.district.warning
           \/ /\ up.current.ok /\ up.current.temperature = NonNumeric
              /\ up.forecast = ForecastFails
              /\ up.rainfall = RainfallFails
              /\ up.district = DistrictFails}

NoUpstream ==
    [current |-> CurrentFails, forecast |-> ForecastFails,
     rainfall |-> RainfallFails, district |-> DistrictFails, month |-> 1,
     raises |-> FALSE]

\* The answers of the three models: a black box of the features.
MLOutputs ==
    {[category |-> "High", score |-> 85, structure |-> "Recharge Pit"],
     [category |-> "Low", score |-> 20, structure |-> "Storage Tank"]}

NoML == [category |-> "", score |-> 0, structure |-> ""]

NoDb == [predictions |-> 0, weather_data |-> 0, analytics |-> 0]

\* The seven GET routes that take lat and lon.
WeatherRoutes ==
    {"weather", "weather/forecast", "weather/alerts",
     "weather/recharge-metrics", "weather/historical",
     "weather/station-data", "weather/monsoon-analysis"}

\* Those of them that call get_comprehensive_weather_data.
ComprehensiveRoutes ==
    {"weather", "weather/forecast", "weather/recharge-metrics",
     "weather/monsoon-analysis"}

\* allowed_tables of export_data
allowed_tables == {"predictions", "weather_data", "analytics", "users"}

\* The <table_name> segments an export request is explored with: the
\* allowed names, another table of the database, an allowed name in
\* another case and text that would extend the statement.
TableNames ==
    allowed_tables
    \cup {"sqlite_master", "Users", "users; DROP TABLE predictions"}

\* The table names export_data of api.py hands to
\* DatabaseManager.export_data, which puts them into f"SELECT * FROM ...".
ExportedTablesUnchecked(table_name) == <<table_name>>

ExportedTables(table_name) ==
    IF table_name \notin allowed_tables THEN <<>> ELSE <<table_name>>

NoExport == [table_name |-> "", sql |-> <<>>]

\* The handler threads of the server.
Threads == {1, 2}

\* A thread that handles no request: its position and its local variables.
NoThread ==
    [pc |-> "idle", endpoint |-> "", req |-> NoRequest,
     upstream |-> NoUpstream, weather |-> EmptyDict, features |-> NoFeatures,
     vector |-> NoVector, df_encoded |-> NoColumns, ml |-> NoML,
     response |-> NoResponse, status |-> 0, dbFailed |-> FALSE,
     export |-> NoExport]

\* The requests, queries, routes, upstream answers and table names the
\* threaded server is explored with.
ServerRequests ==
    {s @@ SoilAbsent :
        s \in {x \in RoofTypeSites : x.roof_type \in {"Metal", NoRoofType}}}

ServerQueries ==
    {q \in WeatherQueries : q.latitude = Num(286) /\ q.longitude = Num(772)}

ServerRoutes ==
    {"weather", "weather/alerts", "weather/historical",
     "weather/station-data"}

ServerUpstreams ==
    {up \in PredictUpstreams :
        up.raises \/ (up.forecast.ok /\ up.forecast.days = <<WetDay>>)}

ServerTables == {"users", "sqlite_master"}

\* The GET requests of the threaded server: the days argument is one
\* int() accepts and a station is named.
ServerArrivals ==
    [routes |-> ServerRoutes, queries |-> ServerQueries,
     upstreams |-> [route \in ServerRoutes |-> ServerUpstreams],
     days |-> {TRUE}, stations |-> {TRUE}]

(***************************************************************************)
(* The state machine.  app.run (api.py line 571) starts the development    *)
(* server of Flask, which handles every request in a thread of its own.  A *)
(* request waits in each of its upstream lookups (requests.get with a      *)
(* timeout of 10 s) and in each call of the database, and the other        *)
(* requests advance meanwhile.  A step of a thread is a lookup returning,  *)
(* an update of the weather record, a stage of the handler or a call of    *)
(* the database; the steps of different threads interleave in any order.   *)
(* What the lookups of a request answer is drawn when the request arrives. *)
(***************************************************************************)

Init ==
    /\ threads = [t \in Threads |-> NoThread]
    /\ db = NoDb
    /\ served = 0
    /\ calls = <<>>
    /\ default_map = default_weather

\* POST /predict: the request is read (lines 39-48) and the handler enters
\* get_comprehensive_weather_data (line 51), where it waits for the first
\* lookup.
PredictRequest(t, requests, upstreams) ==
    /\ threads[t].pc = "idle"
    /\ served < MaxRequests
    /\ \E r \in requests, up \in upstreams :
          threads' = [threads EXCEPT ![t] =
                         [NoThread EXCEPT !.pc = "get_current",
                                          !.endpoint = "predict",
                                          !.req = r, !.upstream = up]]
    /\ served' = served + 1
    /\ UNCHANGED <<db, calls, default_map>>

\* lat or lon fails the test "if not latitude or not longitude": it is
\* missing, not a number, or zero.
CoordinateRefused(q) ==
    \/ q.latitude.k # "num" \/ q.latitude.v = 0
    \/ q.longitude.k # "num" \/ q.longitude.v = 0

\* The first wait of each GET route that takes lat and lon.  station: the
\* request to /weather/station-data names a station.
FirstWait(route, station) ==
    IF route \in ComprehensiveRoutes THEN "get_current"
    ELSE IF route = "weather/alerts" THEN "get_alerts"
    ELSE IF route = "weather/historical" THEN "read_history"
    ELSE IF station THEN "get_station_nowcast"
    ELSE "get_aws_data"

\* The thread of a GET request when the handler reaches its first lookup
\* or answers without one.  days_ok: int() accepts the days argument of
\* /weather/historical, which is read before the coordinates are checked.
WeatherThread(route, q, up, days_ok, station) ==
    IF route = "weather/historical" /\ ~days_ok
    THEN [NoThread EXCEPT !.pc = "done", !.endpoint = route,
                          !.req = q, !.status = 500]
    ELSE IF CoordinateRefused(q)
    THEN [NoThread EXCEPT !.pc = "done", !.endpoint = route,
                          !.req = q, !.status = 400]
    ELSE [NoThread EXCEPT !.pc = FirstWait(route, station),
                          !.endpoint = route, !.req = q,
                          !.upstream = up]

\* The GET routes taking lat and lon (lines 251-342, 445-518) up to their
\* first lookup, for one of the requests of arrivals: a route, a query,
\* the answers of the upstream lookups of a route that makes them, a days
\* argument for /weather/historical and a station name or none for
\* /weather/station-data.
GetWeatherRequest(t, arrivals) ==
    /\ threads[t].pc = "idle"
    /\ served < MaxRequests
    /\ \E route \in arrivals.routes, q \in arrivals.queries :
          \E up \in IF route \in ComprehensiveRoutes
                    THEN arrivals.upstreams[route] ELSE {NoUpstream},
             days_ok \in IF route = "weather/historical"
                         THEN arrivals.days ELSE {TRUE},
             station \in IF route = "weather/station-data"
                         THEN arrivals.stations ELSE {TRUE} :
             threads' = [threads EXCEPT ![t] =
                            WeatherThread(route, q, up, days_ok, station)]
    /\ served' = served + 1
    /\ UNCHANGED <<db, calls, default_map>>

\* GET /export/<table_name> (lines 427-434) up to the read of the table.
ExportRequest(t, names) ==
    /\ threads[t].pc = "idle"
    /\ served < MaxRequests
    /\ \E table_name \in names : threads' = [threads EXCEPT ![t] =
          IF ExportedTables(table_name) = <<>>
          THEN [NoThread EXCEPT !.pc = "done", !.endpoint = "export",
                                !.export.table_name = table_name,
                                !.status = 400]
          ELSE [NoThread EXCEPT !.pc = "export_read", !.endpoint = "export",
                                !.export.table_name = table_name]]
    /\ served' = served + 1
    /\ UNCHANGED <<db, calls, default_map>>

\* The wait that follows each of the seven lookups of
\* get_comprehensive_weather_data (weather_service.py lines 113, 131, 148,
\* 157, 166, 186, 195); after the last, _combine_weather_data starts.
LookupAfter ==
    [get_current |-> "get_forecast",
     get_forecast |-> "get_district_rainfall",
     get_district_rainfall |-> "get_state_rainfall",
     get_state_rainfall |-> "get_subdivision_rainfall",
     get_subdivision_rainfall |-> "get_district_nowcast",
     get_district_nowcast |-> "get_district_warning",
     get_district_warning |-> "defaults"]

\* requests.get(url, timeout=10) of the lookup thread t waits in returns,
\* raises or times out; its answer is kept for _combine_weather_data.
LookupReturns(t) ==
    /\ threads[t].pc \in DOMAIN LookupAfter
    /\ threads' = [threads EXCEPT ![t].pc = LookupAfter[threads[t].pc]]
    /\ UNCHANGED <<db, served, calls, default_map>>

\* A dictionary without the defaults.
NoDefaultsCopied(shared) == EmptyDict

\* combined = {}; combined.update(self.default_weather), and
\* self.default_weather.copy() of the fallback: a new dictionary holding
\* the defaults.
CopiedDefaults(shared) == Update(EmptyDict, shared)

\* The defaults are copied into the dictionary of the request; when an
\* exception escaped inside the try block, that is the copy of
\* _get_fallback_weather_data.
CopyDefaults(t) ==
    /\ threads[t].pc = "defaults"
    /\ threads' = [threads EXCEPT ![t].weather = CopiedDefaults(default_map),
                                  ![t].pc = IF threads[t].upstream.raises
                                            THEN "fallback" ELSE "current"]
    /\ UNCHANGED <<db, served, calls, default_map>>

\* What self.default_weather holds after a request has updated its own
\* dictionary: _combine_weather_data fills a new dict (combined = {}) and
\* _get_fallback_weather_data a copy, so the shared map stays as it is.
SharedAfterUpdateAliased(shared, local) ==
    [k \in DOMAIN shared |-> local[k]]

SharedAfterUpdate(shared, local) == shared

\* The statement following each update of _combine_weather_data.
StepAfter ==
    [current |-> "forecast", forecast |-> "rainfall", rainfall |-> "district",
     district |-> "derived", derived |-> "recharge"]

\* The dictionary each update of _combine_weather_data merges in.
UpdateOf(step, up, combined) ==
    CASE step = "current" -> CurrentWeather(up.current)
      [] step = "forecast" -> Forecast(up.forecast)
      [] step = "rainfall" -> Rainfall(up.rainfall)
      [] step = "district" -> District(up.district)
      [] step = "derived" -> DerivedMetrics(combined)

\* combined.update(...) of _combine_weather_data, one call per step
UpdateCombined(t) ==
    /\ threads[t].pc \in DOMAIN StepAfter
    /\ LET th == threads[t]
       IN  threads' =
             [threads EXCEPT ![t].weather =
                                 Update(th.weather,
                                        UpdateOf(th.pc, th.upstream,
                                                 th.weather)),
                             ![t].pc = StepAfter[th.pc]]
    /\ default_map' = SharedAfterUpdate(default_map, threads'[t].weather)
    /\ UNCHANGED <<db, served, calls>>

\* fallback_data.update({'latitude': ..., 'data_source': 'FALLBACK', ...})
UpdateFallback(t) ==
    /\ threads[t].pc = "fallback"
    /\ LET th == threads[t]
       IN  threads' =
             [threads EXCEPT ![t].weather =
                                 Update(th.weather,
                                        [latitude |-> th.req.latitude,
                                         longitude |-> th.req.longitude,
                                         data_source |-> "FALLBACK",
                                         data_timestamp |-> "now",
                                         api_status |->
                                             "Failed - Using fallback data"]),
                             ![t].pc = "recharge"]
    /\ default_map' = SharedAfterUpdate(default_map, threads'[t].weather)
    /\ UNCHANGED <<db, served, calls>>

\* comprehensive_data.update(self._calculate_recharge_metrics(...)) and the
\* return of the record to the handler: predict goes on with it, a GET
\* route answers it with 200.
UpdateRecharge(t) ==
    /\ threads[t].pc = "recharge"
    /\ LET th == threads[t]
       IN  threads' =
             [threads EXCEPT ![t].weather =
                                 WithRechargeMetrics(th.weather,
                                                     th.upstream.month),
                             ![t].pc = IF th.endpoint = "predict"
                                       THEN "derive" ELSE "done",
                             ![t].status = IF th.endpoint = "predict"
                                           THEN 0 ELSE 200]
    /\ default_map' = SharedAfterUpdate(default_map, threads'[t].weather)
    /\ UNCHANGED <<db, served, calls>>

\* The thread th holding the vector v and the frame made of it (lines
\* 109-121).
Framed(th, v) ==
    [th EXCEPT !.vector = v,
               !.df_encoded = AlignColumns(GetDummies(v)),
               !.pc = "balance"]

\* The thread th holding the features f (lines 55-88) and what lines
\* 90-121 make of them.
Derived(th, f) == Framed([th EXCEPT !.features = f], FeatureVector(th.req, f))

\* predict, lines 55-121: the features of the request, the vector and the
\* frame handed to the models; a line that raises leads to the except
\* branch (lines 244-249) and the answer 500.
Derive(t) ==
    /\ threads[t].pc = "derive"
    /\ LET th == threads[t]
       IN  threads' =
             [threads EXCEPT ![t] =
                 IF PredictRaises(th.req, th.weather)
                 THEN [th EXCEPT !.response = ErrorResponse,
                                 !.status = 500,
                                 !.pc = "done"]
                 ELSE Derived(th, Features(th.req, th.weather))]
    /\ UNCHANGED <<db, served, calls, default_map>>

\* predict, lines 123-212: the three models answer m, and the water balance
\* and the response dictionary are built.
Balance(t, m) ==
    /\ threads[t].pc = "balance"
    /\ LET th == threads[t]
       IN  threads' =
             [threads EXCEPT ![t].ml = m,
                             ![t].response = BuildResponse(th.req, th.features, m),
                             ![t].pc = "save_prediction"]
    /\ UNCHANGED <<db, served, calls, default_map>>

\* A raising DatabaseManager call reaching the outer except of predict.
DbCallPropagates(th) ==
    [th EXCEPT !.dbFailed = TRUE, !.pc = "done", !.status = 500,
               !.response = ErrorResponse]

\* The persistence call that follows each one (lines 215-236).
NextSave ==
    [save_prediction |-> "save_weather_data",
     save_weather_data |-> "save_analytics_score",
     save_analytics_score |-> "save_analytics_tank",
     save_analytics_tank |-> "respond"]

\* Each persistence call in a try block of its own: a raising call is
\* logged and the next one is made.
DbCallContinues(th) == [th EXCEPT !.dbFailed = TRUE, !.pc = NextSave[th.pc]]

\* What a raising DatabaseManager call does to predict: the except of lines
\* 238-239 logs it and the handler goes on to return the response.
DbCallRaised(th) == [th EXCEPT !.dbFailed = TRUE, !.pc = "respond"]

\* db_manager.save_prediction(prediction_data); response['prediction_id']
\* is cursor.lastrowid, the id of the row this call inserted.
SavePrediction(t, ok) ==
    /\ threads[t].pc = "save_prediction"
    /\ IF ok
       THEN /\ db' = [db EXCEPT !.predictions = @ + 1]
            /\ threads' =
                  [threads EXCEPT ![t].response.prediction_id =
                                      db.predictions + 1,
                                  ![t].pc = "save_weather_data"]
       ELSE /\ threads' = [threads EXCEPT ![t] = DbCallRaised(threads[t])]
            /\ UNCHANGED db
    /\ UNCHANGED <<served, calls, default_map>>

\* db_manager.save_weather_data(weather_data, latitude, longitude)
SaveWeatherData(t, ok) ==
    /\ threads[t].pc = "save_weather_data"
    /\ IF ok
       THEN /\ db' = [db EXCEPT !.weather_data = @ + 1]
            /\ threads' = [threads EXCEPT ![t].pc = "save_analytics_score"]
       ELSE /\ threads' = [threads EXCEPT ![t] = DbCallRaised(threads[t])]
            /\ UNCHANGED db
    /\ UNCHANGED <<served, calls, default_map>>

\* db_manager.save_analytics('feasibility_score', ...)
SaveAnalyticsScore(t, ok) ==
    /\ threads[t].pc = "save_analytics_score"
    /\ IF ok
       THEN /\ db' = [db EXCEPT !.analytics = @ + 1]
            /\ threads' = [threads EXCEPT ![t].pc = "save_analytics_tank"]
       ELSE /\ threads' = [threads EXCEPT ![t] = DbCallRaised(threads[t])]
            /\ UNCHANGED db
    /\ UNCHANGED <<served, calls, default_map>>

\* db_manager.save_analytics('tank_capacity', ...)
SaveAnalyticsTank(t, ok) ==
    /\ threads[t].pc = "save_analytics_tank"
    /\ IF ok
       THEN /\ db' = [db EXCEPT !.analytics = @ + 1]
            /\ threads' = [threads EXCEPT ![t].pc = "respond"]
       ELSE /\ threads' = [threads EXCEPT ![t] = DbCallRaised(threads[t])]
            /\ UNCHANGED db
    /\ UNCHANGED <<served, calls, default_map>>

\* return jsonify(response)
Respond(t) ==
    /\ threads[t].pc = "respond"
    /\ threads' = [threads EXCEPT ![t].status = 200, ![t].pc = "done"]
    /\ UNCHANGED <<db, served, calls, default_map>>

\* The lookups of get_weather_alerts (weather_service.py line 500) and of
\* _get_station_data (lines 555, 564) return, raise or time out; each
\* failure is caught and the route answers 200.
RouteLookupReturns(t) ==
    /\ threads[t].pc \in {"get_alerts", "get_station_nowcast", "get_aws_data"}
    /\ threads' =
          IF threads[t].pc = "get_station_nowcast"
          THEN [threads EXCEPT ![t].pc = "get_aws_data"]
          ELSE [threads EXCEPT ![t].status = 200, ![t].pc = "done"]
    /\ UNCHANGED <<db, served, calls, default_map>>

\* db_manager.get_weather_data of /weather/historical (line 457); read_ok:
\* the read does not raise.
ReadHistory(t, read_ok) ==
    /\ threads[t].pc = "read_history"
    /\ threads' = [threads EXCEPT ![t].status = IF read_ok THEN 200 ELSE 500,
                                  ![t].pc = "done"]
    /\ UNCHANGED <<db, served, calls, default_map>>

\* db_manager.export_data(table_name) (line 435), which puts the name into
\* f"SELECT * FROM {table_name}"; read_ok: the read does not raise.
ExportRead(t, read_ok) ==
    /\ threads[t].pc = "export_read"
    /\ threads' =
          [threads EXCEPT ![t].export.sql =
                              ExportedTables(threads[t].export.table_name),
                          ![t].status = IF read_ok THEN 200 ELSE 500,
                          ![t].pc = "done"]
    /\ UNCHANGED <<db, served, calls, default_map>>

\* The answer has been sent; the thread is free for the next request.
Finish(t) ==
    /\ threads[t].pc = "done"
    /\ threads' = [threads EXCEPT ![t] = NoThread]
    /\ UNCHANGED <<db, served, calls, default_map>>

\* A step of the request thread t handles.
Handle(t) ==
    \/ LookupReturns(t)
    \/ CopyDefaults(t)
    \/ UpdateCombined(t)
    \/ UpdateFallback(t)
    \/ UpdateRecharge(t)
    \/ Derive(t)
    \/ \E m \in MLOutputs : Balance(t, m)
    \/ \E ok \in BOOLEAN : SavePrediction(t, ok)
    \/ \E ok \in BOOLEAN : SaveWeatherData(t, ok)
    \/ \E ok \in BOOLEAN : SaveAnalyticsScore(t, ok)
    \/ \E ok \in BOOLEAN : SaveAnalyticsTank(t, ok)
    \/ Respond(t)
    \/ RouteLookupReturns(t)
    \/ \E read_ok \in BOOLEAN : ReadHistory(t, read_ok)
    \/ \E read_ok \in BOOLEAN : ExportRead(t, read_ok)

\* The server: requests arrive on the free threads and are handled side by
\* side.
Next ==
    \/ \E t \in Threads : PredictRequest(t, ServerRequests, ServerUpstreams)
    \/ \E t \in Threads : GetWeatherRequest(t, ServerArrivals)
    \/ \E t \in Threads : ExportRequest(t, ServerTables)
    \/ \E t \in Threads : Handle(t)
    \/ \E t \in Threads : Finish(t)

Spec == Init /\ [][Next]_vars

(***************************************************************************)
(* One request followed from its arrival to its answer on a server that    *)
(* handles no other: the steps are those of the threaded server, taken by  *)
(* thread 1, over every request, query, route and upstream answer.         *)
(***************************************************************************)

\* The upstream answers each route is explored with.
RouteUpstreams(route) ==
    IF route = "weather" THEN Upstreams ELSE PredictUpstreams

RequestInit ==
    /\ threads = [t \in {1} |-> NoThread]
    /\ db = NoDb
    /\ served = 0
    /\ calls = <<>>
    /\ default_map = default_weather

\* The GET requests: every route with every query, /weather/historical
\* also with a days argument int() rejects, /weather/station-data also
\* without a station name.
RequestArrivals ==
    [routes |-> WeatherRoutes, queries |-> WeatherQueries,
     upstreams |-> [route \in WeatherRoutes |-> RouteUpstreams(route)],
     days |-> BOOLEAN, stations |-> BOOLEAN]

RequestNext ==
    \/ PredictRequest(1, Requests, PredictUpstreams)
    \/ GetWeatherRequest(1, RequestArrivals)
    \/ ExportRequest(1, TableNames)
    \/ Handle(1)

RequestSpec == RequestInit /\ [][RequestNext]_vars

(***************************************************************************)
(* The recharge estimator on its own: _calculate_recharge_metrics applied  *)
(* to a weather record, as get_comprehensive_weather_data applies it.      *)
(***************************************************************************)

\* avg_temperature_c of the record: below, at and above 10 C, 27.5 C, and
\* the average 382/14 C of a forecast of seven days.
TemperatureValues ==
    {FloatOf(5), FloatOf(10), FloatOf(25), Float(275, 1), FloatOf(30),
     FloatOf(45), FDiv(FloatOf(382), FloatOf(14))}

\* current_humidity_percent: dry to saturated, and a reading above 100.
HumidityValues == {0, 40, 70, 100, 110}

\* current_wind_speed_kmh; at 45 C and 0% humidity a wind of 93 km/h gives an
\* evaporation rate of 10.01 mm/day.
WindValues == {10, 20, 93}

\* annual_rainfall_mm: each threshold of the intensity bands and of the
\* infiltration cap, the value above it, and values in between; an odd
\* rainfall below 2000 has a multiple of 0.0005 as its infiltration.
RainfallValues ==
    {0, 500, 501, 999, 1000, 1001, 1200, 1500, 1501, 2000, 2001, 3000}

\* The five keys the estimator reads.
RechargeKeys ==
    {"avg_temperature_c", "current_humidity_percent",
     "current_wind_speed_kmh", "annual_rainfall_mm", "max_daily_rainfall_mm"}

\* A record none of whose values is a default of the estimator.
FullRecord ==
    [avg_temperature_c |-> FloatOf(30), current_humidity_percent |-> 40,
     current_wind_speed_kmh |-> 20, annual_rainfall_mm |-> 1600,
     max_daily_rainfall_mm |-> 80]

\* FullRecord with every subset of the five keys left out.
PartialRecords == {[k \in S |-> FullRecord[k]] : S \in SUBSET RechargeKeys}

\* Records holding a value that is not a number.
NonNumericRecords ==
    {[current_humidity_percent |-> NonNumeric],
     [FullRecord EXCEPT !.avg_temperature_c = NonNumericFloat]}

\* Every combination of the values above.
RechargeGrid ==
    [avg_temperature_c : TemperatureValues,
     current_humidity_percent : HumidityValues,
     current_wind_speed_kmh : WindValues,
     annual_rainfall_mm : RainfallValues,
     max_daily_rainfall_mm : {50}]

\* The records the estimator is applied to: the combinations, the records
\* with keys left out, a record with the rainfall only and the
\* non-numeric ones.
RechargeInputs ==
    RechargeGrid
    \cup PartialRecords
    \cup {[annual_rainfall_mm |-> 1600]}
    \cup NonNumericRecords

\* The calls of the estimator as <<record, month>>: the month decides
\* the season and nothing else, so the combinations are explored in July
\* and the other records in every month.
RechargeCalls ==
    (RechargeGrid \X {7}) \cup ((RechargeInputs \ RechargeGrid) \X Months)

\* A thread about to apply the estimator to the record w in the month m.
Estimating(w, m) ==
    [NoThread EXCEPT !.pc = "estimate", !.weather = w,
                     !.upstream = [NoUpstream EXCEPT !.month = m]]

RechargeInit ==
    /\ threads \in {[t \in {1} |-> Estimating(call[1], call[2])] :
                       call \in RechargeCalls}
    /\ db = NoDb
    /\ served = 0
    /\ calls = <<>>
    /\ default_map = default_weather

\* The thread th after the estimator has returned metrics: {} when the
\* except branch was taken.
Estimated(th, metrics) ==
    [th EXCEPT !.weather = Update(th.weather, metrics),
               !.pc = IF DOMAIN metrics = {} THEN "recharge_failed"
                      ELSE "recharge_done"]

\* comprehensive_data.update(self._calculate_recharge_metrics(
\*     comprehensive_data))
CalculateRechargeMetrics(t) ==
    /\ threads[t].pc = "estimate"
    /\ LET th == threads[t]
       IN  threads' =
             [threads EXCEPT ![t] =
                 Estimated(th, RechargeMetrics(th.weather, th.upstream.month))]
    /\ UNCHANGED <<db, served, calls, default_map>>

RechargeNext == CalculateRechargeMetrics(1)

RechargeSpec == RechargeInit /\ [][RechargeNext]_vars

(***************************************************************************)
(* The three components invoked repeatedly on the same explicit inputs,    *)
(* while the calendar moves on between the invocations.                    *)
(***************************************************************************)

MaxCalls == 2

\* The requests of the repeated invocations: a 100 m2 roof of each type.
RepeatRequests == {s @@ SoilAbsent : s \in RoofTypeSites}

\* The weather records of the repeated invocations.
RepeatRecords ==
    {GetComprehensiveWeatherData(Num(286), Num(772), up) :
        up \in {u \in PredictUpstreams : ~u.raises}}
    \cup {FullRecord, EmptyDict}

\* A thread about to invoke the components on the request r, the record w
\* and the model outputs m, in the month mo.
Repeating(r, w, m, mo) ==
    [NoThread EXCEPT !.pc = "repeat", !.req = r, !.weather = w, !.ml = m,
                     !.upstream = [NoUpstream EXCEPT !.month = mo]]

RepeatInit ==
    /\ threads \in {[t \in {1} |-> Repeating(r, w, m, mo)] :
                       r \in RepeatRequests, w \in RepeatRecords,
                       m \in MLOutputs, mo \in Months}
    /\ db = NoDb
    /\ served = 0
    /\ calls = <<>>
    /\ default_map = default_weather

\* What one invocation returns on the request r with the features f and
\* the model outputs m: the vector and the response, or the error answer
\* when the try block raises, and the recharge metrics.
Invocation(r, f, m, raises, recharge) ==
    [vector |-> IF raises THEN NoVector ELSE FeatureVector(r, f),
     balance |-> IF raises THEN ErrorResponse ELSE BuildResponse(r, f, m),
     recharge |-> recharge]

\* One invocation of the feature derivation (api.py lines 55-99), of the
\* water balance (lines 101-212) and of _calculate_recharge_metrics, which
\* takes the record only and reads datetime.now().month (line 409).
Invoke(t) ==
    /\ threads[t].pc = "repeat"
    /\ Len(calls) < MaxCalls
    /\ LET th == threads[t]
       IN  calls' =
             Append(calls,
                    Invocation(th.req, Features(th.req, th.weather), th.ml,
                               PredictRaises(th.req, th.weather),
                               RechargeMetrics(th.weather, th.upstream.month)))
    /\ UNCHANGED <<threads, db, served, default_map>>

\* The month of the wall clock changes.
ClockAdvances(t) ==
    /\ threads[t].pc = "repeat"
    /\ Len(calls) < MaxCalls
    /\ threads' = [threads EXCEPT ![t].upstream.month =
                                      (threads[t].upstream.month % 12) + 1]
    /\ UNCHANGED <<db, served, calls, default_map>>

RepeatNext == Invoke(1) \/ ClockAdvances(1)

RepeatSpec == RepeatInit /\ [][RepeatNext]_vars

(***************************************************************************)
(* Properties                                                              *)
(***************************************************************************)

\* A predict request has been answered.
PredictDone == pc = "done" /\ endpoint = "predict"

\* A predict request has been answered with a feasibility result.
PredictAnswered == PredictDone /\ status = 200

\* get_comprehensive_weather_data has been called for the answered request.
WeatherFetched ==
    /\ pc = "done"
    /\ \/ endpoint = "predict"
       \/ (endpoint = "weather" /\ status = 200)

\* annual_harvestable of the explored sites, computed once.
ExploredAnnuals ==
    Tabulated([site \in ExploredSites |->
                  AnnualHarvestable(site[1], site[2], site[3])])

\* annual_harvestable of a roof, a float.
AnnualOf(roof, rain, rc) ==
    IF <<roof, rain, rc>> \in DOMAIN ExploredAnnuals
    THEN ExploredAnnuals[<<roof, rain, rc>>]
    ELSE AnnualHarvestable(roof, rain, rc)

\* annual_harvestable of the answered request.
Annual ==
    AnnualOf(req.roof_area_m2.v, features.annual_rainfall_mm,
             features.runoff_coefficient)

\* The share of the month m, the float of its decimal.
Share(m) == Float(monthly_rainfall_distribution[m], 2)

\* floor(x) of the float x, an integer.
FFloor(x) == IF x.neg /\ x.e < 0 THEN FInt(x) - 1 ELSE FInt(x)

\* x <= y for floats
FLeq(x, y) == ~FLess(y, x)

RECURSIVE SumLiters(_, _)
SumLiters(plan, n) ==
    IF n = 0 THEN 0 ELSE plan[n].liters + SumLiters(plan, n - 1)

\* roof_area_m2 is absent, zero or negative.
RoofAreaInvalid(r) ==
    \/ r.roof_area_m2.k \in {"absent", "null"}
    \/ (r.roof_area_m2.k \in {"num", "numstr"} /\ r.roof_area_m2.v <= 0)

\* C1: a predict request whose roof_area_m2 is absent, zero or negative is
\* answered with a client error (4xx) and never with a feasibility result.
C1_InvalidRoofAreaRejected ==
    PredictDone /\ RoofAreaInvalid(req) => status \in 400..499

NumericFields ==
    {"latitude", "longitude", "roof_area_m2", "available_space_m2",
     "runoff_coefficient", "annual_runoff_m3"}

\* Apart from unparsable values the request is a valid one: a positive roof
\* area and an available space whose roof_efficiency denominator is not 0.
ValidApartFromUnparsable(r) ==
    /\ \/ r.roof_area_m2 = BadStr
       \/ (r.roof_area_m2.k \in {"num", "numstr"} /\ r.roof_area_m2.v > 0)
    /\ r.available_space_m2 # Num(-10)

\* C2: a request with present but unparsable numeric fields completes with a
\* feasibility result, each such field being 0.0 in the feature vector.
C2_UnparsableFieldCoercedToZero ==
    /\ PredictDone
    /\ ~upstream.raises
    /\ ValidApartFromUnparsable(req)
    /\ \E f \in NumericFields : req[f] = BadStr
    => /\ status = 200
       /\ \A f \in NumericFields : req[f] = BadStr => features[f] = 0

\* C3: when every upstream HTTP call fails, the weather record returned
\* carries data_source = "FALLBACK".
C3_AllFailGivesFallback ==
    WeatherFetched /\ AllFail(upstream)
    => Get(weather, "data_source", "") = "FALLBACK"

\* The part of the response that is the feasibility result.
Result(resp) ==
    <<resp.feasibility_category, resp.feasibility_score,
      resp.recommended_structure, resp.recommended_tank_capacity_liters,
      resp.monthly_storage_requirements, resp.monthly_harvestable>>

\* The request thread th handles has been answered by predict.
PredictDoneBy(th) == th.pc = "done" /\ th.endpoint = "predict"

\* C4: a predict request during which a persistence call failed is answered
\* 200 with the feasibility result computed before persistence, whatever
\* the other requests do meanwhile.
C4_PersistenceFailureKeepsResult ==
    \A t \in Threads :
        PredictDoneBy(threads[t]) /\ threads[t].dbFailed
        => /\ threads[t].status = 200
           /\ Result(threads[t].response)
                 = Result(BuildResponse(threads[t].req, threads[t].features,
                                        threads[t].ml))

\* A request answered after its save_prediction succeeded and a later save
\* of it failed, another request having saved its prediction in between.
C4_Witness ==
    /\ PredictDoneBy(threads[1])
    /\ threads[1].status = 200
    /\ threads[1].dbFailed
    /\ threads[1].response.prediction_id = 1
    /\ threads[1].response.feasibility_category # ""
    /\ db.predictions = 2

\* C5: on every path the record of get_comprehensive_weather_data holds the
\* five keys predict indexes, and no answered request failed for the lack
\* of one.
C5_WeatherRecordHasRequiredKeys ==
    WeatherFetched
    => /\ WeatherKeys \subseteq DOMAIN weather
       /\ ~WeatherKeyMissing(weather)
       /\ (endpoint = "weather" => status = 200)

\* The record returned when every upstream lookup failed.
C5_Witness ==
    /\ WeatherFetched
    /\ AllFail(upstream)
    /\ ~upstream.raises
    /\ WeatherKeys \subseteq DOMAIN weather

\* C6: monthly_harvestable has the 12 entries January..December in order and
\* each equals floor(annual_harvestable_liters * share), the product being
\* the float one.
C6_MonthlyHarvestableIsFloor ==
    PredictAnswered
    => /\ Len(response.monthly_harvestable) = 12
       /\ \A m \in 1..12 :
             /\ response.monthly_harvestable[m].month = MonthNames[m]
             /\ response.monthly_harvestable[m].liters =
                   FFloor(FMul(Annual, Share(m)))

\* C7 as claimed, for the requests with a positive roof area: the storage
\* requirement of a month is floor(max(800 * days - harvestable, 0) * 1.2)
\* with harvestable the floored figure reported in monthly_harvestable.
C7_StorageFromFlooredHarvest ==
    PredictAnswered /\ req.roof_area_m2.v > 0
    => \A m \in 1..12 :
          response.monthly_storage_requirements[m].liters =
             FFloor(FMul(FloatOf(Max(800 * days_in_month[m]
                                      - response.monthly_harvestable[m].liters,
                                     0)),
                         Float(12, 1)))

\* C7 as amended: the storage requirement of a month is
\* floor(max(800 * days - annual_harvestable_liters * share, 0) * 1.2), the
\* month's harvest entering unfloored, in float arithmetic.
C7_StorageFromExactHarvest ==
    PredictAnswered
    => \A m \in 1..12 :
          /\ response.monthly_storage_requirements[m].month = MonthNames[m]
          /\ response.monthly_storage_requirements[m].liters =
                FFloor(FMul(FMax(FSub(FloatOf(800 * days_in_month[m]),
                                      FMul(Annual, Share(m))),
                                 FZero),
                            Float(12, 1)))

\* A result in which a month's harvest has a fractional part and the storage
\* computed from the floored harvest would differ.
C7_Witness ==
    /\ PredictAnswered
    /\ req.roof_area_m2.v > 0
    /\ \E m \in 1..12 :
          /\ FMul(Annual, Share(m)).e < 0
          /\ response.monthly_storage_requirements[m].liters #
                FFloor(FMul(FloatOf(Max(800 * days_in_month[m]
                                - response.monthly_harvestable[m].liters, 0)),
                            Float(12, 1)))

\* C8: recommended_tank_capacity_liters = floor(min(annual_harvestable * 0.3,
\* 72000)), never above 72000 nor above 30% of the annual harvest.
C8_TankCapacityIsFloorOfMin ==
    PredictAnswered
    => /\ response.recommended_tank_capacity_liters =
             FFloor(FMin(FMul(Annual, Float(3, 1)), FloatOf(72000)))
       /\ response.recommended_tank_capacity_liters <= 72000
       /\ FLeq(FloatOf(response.recommended_tank_capacity_liters),
               FMul(Annual, Float(3, 1)))

\* C9: for a positive roof area the 12 monthly_harvestable values sum to at
\* most annual_harvestable_liters, as computed and as reported, and to more
\* than that minus 12.
C9_MonthlySumWithinRounding ==
    PredictAnswered /\ req.roof_area_m2.v > 0
    => LET total == SumLiters(response.monthly_harvestable, 12)
       IN  /\ FLeq(FloatOf(total), Annual)
           /\ total <= response.annual_harvestable_liters
           /\ FLess(Annual, FloatOf(total + 12))

\* A positive roof area whose monthly figures lose a fraction to truncation.
C9_Witness ==
    /\ PredictAnswered
    /\ req.roof_area_m2.v > 0
    /\ SumLiters(response.monthly_harvestable, 12)
          < response.annual_harvestable_liters

\* The numeric roof areas of the request space.
NumericRoofAreas ==
    {x.v : x \in {y \in RoofAreaValues : y.k = "num"}}
    \cup {s.roof_area_m2.v : s \in FractionalSites}

\* C10: with rainfall and runoff coefficient fixed, a larger roof area gives
\* an annual harvest, a harvest_potential and a tank capacity that are each at
\* least those of the answered request.
C10_MonotoneInRoofArea ==
    PredictAnswered /\ features.runoff_coefficient > 0
    => \A a \in NumericRoofAreas :
          a >= req.roof_area_m2.v
          => LET larger ==
                   AnnualOf(a, features.annual_rainfall_mm,
                            features.runoff_coefficient)
             IN  /\ FLeq(Annual, larger)
                 /\ FInt(larger) >= response.annual_harvestable_liters
                 /\ FLeq(features.harvest_potential,
                         HarvestPotential(features.annual_rainfall_mm, a,
                                          features.runoff_coefficient))
                 /\ FInt(TankCapacity(larger))
                       >= response.recommended_tank_capacity_liters

\* An answered request for which some larger roof area gives a strictly
\* larger tank capacity.
C10_Witness ==
    /\ PredictAnswered
    /\ features.runoff_coefficient > 0
    /\ \E a \in NumericRoofAreas :
          /\ a > req.roof_area_m2.v
          /\ FInt(TankCapacity(AnnualOf(a, features.annual_rainfall_mm,
                                        features.runoff_coefficient)))
                > response.recommended_tank_capacity_liters

\* The request gets past the feature preparation: runoff_coefficient parses
\* and the denominator of roof_efficiency is not zero.
FeaturesPrepared ==
    /\ ~RunoffCoefficientRaises(req)
    /\ ~RoofEfficiencyRaises(Features(req, weather))

\* C11: with roof_area_m2 = 0 the water balance does not fail and yields
\* annual_harvestable_liters = 0, every monthly_harvestable entry 0, tank
\* capacity 0 and monthly_storage_requirements[m] =
\* floor(800 * days_in_month[m] * 1.2) for every month m.
C11_ZeroRoofYieldsZeros ==
    PredictDone /\ req.roof_area_m2 = Num(0) /\ FeaturesPrepared
    => /\ status = 200
       /\ response.annual_harvestable_liters = 0
       /\ response.recommended_tank_capacity_liters = 0
       /\ \A m \in 1..12 :
             /\ response.monthly_harvestable[m].liters = 0
             /\ response.monthly_storage_requirements[m].liters
                   = Floor(800 * days_in_month[m] * 12, 10)

C11_Witness ==
    /\ PredictAnswered
    /\ req.roof_area_m2 = Num(0)
    /\ response.monthly_storage_requirements[2].liters = 26880
    /\ response.monthly_storage_requirements[7].liters = 29760

\* The answered request lies in the declared domain of the water balance:
\* roof_area_m2 > 0 and runoff_coefficient in (0, 1].
InDeclaredDomain ==
    /\ PredictAnswered
    /\ req.roof_area_m2.v > 0
    /\ features.runoff_coefficient \in 1..10

\* C12: for every input in the declared domain every entry of
\* monthly_storage_requirements and of monthly_harvestable is a non-negative
\* integer, and a month whose harvest is at least its usage
\* (800 * days_in_month) gets storage 0.
C12_EntriesNonNegativeSurplusZero ==
    InDeclaredDomain
    => \A m \in 1..12 :
          /\ response.monthly_harvestable[m].liters \in Nat
          /\ response.monthly_storage_requirements[m].liters \in Nat
          /\ (FLeq(FloatOf(800 * days_in_month[m]), FMul(Annual, Share(m)))
               => response.monthly_storage_requirements[m].liters = 0)

\* A plan with a surplus month (July) and a deficit month (January).
C12_Witness ==
    /\ InDeclaredDomain
    /\ FLeq(FloatOf(800 * days_in_month[7]), FMul(Annual, Share(7)))
    /\ response.monthly_storage_requirements[7].liters = 0
    /\ response.monthly_storage_requirements[1].liters > 0

DerivedNames ==
    {"rainfall_intensity", "soil_water_capacity", "roof_efficiency",
     "climate_aridity", "harvest_potential", "temperature_factor",
     "elevation_factor"}

\* C13: the seven derived features of the vector sent to the models equal
\* the documented formulas evaluated on the coerced inputs (floats), and
\* equal what the training pipeline derives from a row holding the same
\* values.
C13_DerivedFeaturesMatchFormulas ==
    PredictAnswered
    => /\ vector.rainfall_intensity
             = FDiv(FloatOf(features.max_daily_rainfall_mm),
                    FloatOf(features.rainy_days_count + 1))
       /\ vector.soil_water_capacity
             = FAdd(FAdd(FMul(FloatOf(features.clay_pct), Float(4, 1)),
                         FMul(FloatOf(features.silt_pct), Float(3, 1))),
                    FMul(FloatOf(features.sand_pct), Float(1, 1)))
       /\ vector.roof_efficiency
             = FDiv(Float(features.roof_area_m2, 1),
                    FAdd(Float(features.available_space_m2, 1), FloatOf(1)))
       /\ vector.climate_aridity
             = FDiv(Float(features.evaporation_rate_mmday, 2),
                    FAdd(FDiv(FloatOf(features.annual_rainfall_mm),
                              FloatOf(365)),
                         Float(1, 1)))
       /\ vector.harvest_potential
             = FDiv(FMul(FMul(FloatOf(features.annual_rainfall_mm),
                              Float(features.roof_area_m2, 1)),
                         Float(features.runoff_coefficient, 1)),
                    FloatOf(1000))
       /\ vector.temperature_factor
             = FDiv(features.avg_temperature_c, FloatOf(30))
       /\ vector.elevation_factor
             = FDiv(FloatOf(features.elevation_m), FloatOf(1000))
       /\ [k \in DerivedNames |-> vector[k]]
             = TrainingDerivedFeatures(features)

\* A 100 m2 roof on 50 m2 of space with clay 20, silt 30, sand 50 and
\* elevation 250: soil_water_capacity 22.0, roof_efficiency 100/51,
\* elevation_factor 0.25.
C13_Witness ==
    /\ PredictAnswered
    /\ req.clay_pct = Num(20)
    /\ req.available_space_m2 = Num(500)
    /\ vector.soil_water_capacity = FloatOf(22)
    /\ vector.roof_efficiency = FDiv(FloatOf(100), FloatOf(51))
    /\ vector.elevation_factor = Float(25, 2)

\* The request is a SiteInput of the data model: a positive roof area, any
\* float (or nothing) as available space, a runoff coefficient in (0, 1] or
\* none.
IsSiteInput(r) ==
    /\ r.roof_area_m2.k = "num" /\ r.roof_area_m2.v > 0
    /\ r.available_space_m2.k \in {"absent", "num"}
    /\ \/ r.runoff_coefficient.k = "absent"
       \/ (r.runoff_coefficient.k = "num" /\ r.runoff_coefficient.v \in 1..10)

\* C14: feature derivation is total over the declared domain: with
\* rainy_days_count >= 0, annual_rainfall_mm >= 0 and any float as
\* available_space_m2 no denominator (rainy_days_count + 1,
\* available_space_m2 + 1, annual_rainfall_mm/365 + 0.1) is zero and the
\* request does not fail.
C14_DerivationTotal ==
    /\ PredictDone
    /\ IsSiteInput(req)
    /\ Get(weather, "rainy_days_count", 0) >= 0
    /\ Get(weather, "annual_rainfall_mm", 0) >= 0
    => LET f == Features(req, weather)
       IN  /\ f.rainy_days_count + 1 # 0
           /\ f.available_space_m2 + 10 # 0
           /\ 10 * f.annual_rainfall_mm + 365 # 0
           /\ status = 200

\* The documented defaults (runoff_coefficient in tenths).
DocumentedDefaults ==
    [clay_pct |-> 30, sand_pct |-> 40, silt_pct |-> 30, elevation_m |-> 100,
     infiltration_rate_mmhr |-> 10, runoff_coefficient |-> 8]

\* The field is present in the request with a value float() rejects.
PresentInvalid(raw) == raw.k \in {"null", "badstr"}

\* C15: a default is used exactly when the field is absent (clay/sand/silt
\* 30/40/30, elevation 100, infiltration rate 10, runoff coefficient 0.8,
\* available space = roof area); a field present with an invalid value
\* becomes 0.0 in the features and never receives its default.
C15_DefaultOnlyWhenAbsent ==
    /\ PredictDone
    /\ req.roof_area_m2.k = "num" /\ req.roof_area_m2.v > 0
    /\ req.available_space_m2 # Num(-10)
    => /\ status = 200
       /\ \A f \in DOMAIN DocumentedDefaults :
             /\ req[f].k = "absent" => features[f] = DocumentedDefaults[f]
             /\ PresentInvalid(req[f]) => features[f] = 0
             /\ FloatOk(req[f]) => features[f] = req[f].v
       /\ req.available_space_m2.k = "absent"
             => features.available_space_m2 = features.roof_area_m2
       /\ PresentInvalid(req.available_space_m2)
             => features.available_space_m2 = 0

\* C16: annual_runoff_m3 of the feature vector is recomputed as
\* roof_area_m2 * (annual_rainfall_mm/1000) * runoff_coefficient exactly
\* when its coerced value is 0 (absent, zero or unparsable); a supplied
\* non-zero value is passed through unchanged.
C16_AnnualRunoffRecomputedWhenZero ==
    PredictAnswered
    => /\ features.annual_runoff_m3 = 0
             <=> ~(FloatOk(req.annual_runoff_m3) /\ req.annual_runoff_m3.v # 0)
       /\ features.annual_runoff_m3 = 0
             => vector.annual_runoff_m3
                  = FMul(FMul(Float(features.roof_area_m2, 1),
                              FDiv(FloatOf(features.annual_rainfall_mm),
                                   FloatOf(1000))),
                         Float(features.runoff_coefficient, 1))
       /\ features.annual_runoff_m3 # 0
             => vector.annual_runoff_m3 = Float(req.annual_runoff_m3.v, 1)

\* An unparsable annual_runoff_m3 on a 100 m2 roof: 100 * 1.2 * 0.8 = 96 m3.
C16_Witness ==
    /\ PredictAnswered
    /\ req.annual_runoff_m3 = BadStr
    /\ req.roof_area_m2 = Num(1000)
    /\ features.runoff_coefficient = 8
    /\ vector.annual_runoff_m3 = FloatOf(96)

\* _calculate_recharge_metrics has been applied to the record.
RechargeDone == pc = "recharge_done"

\* What the estimator reads from the record, with its defaults.
RecordRainfall == Get(weather, "annual_rainfall_mm", 1200)

\* The temperature of the record, a float.
RecordTemperature == Get(weather, "avg_temperature_c", FloatOf(25))

RecordHumidity == Get(weather, "current_humidity_percent", 70)

RecordWind == Get(weather, "current_wind_speed_kmh", 10)

\* The band of the record: classification and score (tenths).
Band ==
    <<weather.monsoon_intensity.monsoon_intensity,
      weather.monsoon_intensity.intensity_score>>

\* C17: monsoon intensity is classified by strictly-greater-than
\* thresholds, highest first: > 2000 Very High (0.9), > 1500 High (0.7),
\* > 1000 Moderate (0.5), > 500 Low (0.3), otherwise Very Low (0.1); a value
\* on a threshold falls in the lower band.
C17_MonsoonIntensityBands ==
    RechargeDone
    => /\ RecordRainfall > 2000 => Band = <<"Very High", 9>>
       /\ RecordRainfall \in 1501..2000 => Band = <<"High", 7>>
       /\ RecordRainfall \in 1001..1500 => Band = <<"Moderate", 5>>
       /\ RecordRainfall \in 501..1000 => Band = <<"Low", 3>>
       /\ RecordRainfall <= 500 => Band = <<"Very Low", 1>>

\* A rainfall of exactly 2000 mm classified High.
C17_Witness == RechargeDone /\ RecordRainfall = 2000 /\ Band = <<"High", 7>>

\* The season of the record: name and factor (tenths).
Season ==
    <<weather.recharge_seasonality.current_season,
      weather.recharge_seasonality.recharge_factor>>

\* C18: every calendar month is classified into one season with its fixed
\* factor, whatever the record: 6-9 Monsoon (1.5), 3-5 Pre-Monsoon (0.8),
\* 10-11 Post-Monsoon (1.2), 12, 1, 2 Winter (0.5).
C18_SeasonByMonth ==
    RechargeDone
    => /\ upstream.month \in 1..12
       /\ upstream.month \in {6, 7, 8, 9} => Season = <<"Monsoon", 15>>
       /\ upstream.month \in {3, 4, 5} => Season = <<"Pre-Monsoon", 8>>
       /\ upstream.month \in {10, 11} => Season = <<"Post-Monsoon", 12>>
       /\ upstream.month \in {12, 1, 2} => Season = <<"Winter", 5>>

C18_Witness ==
    RechargeDone /\ upstream.month = 12 /\ Season = <<"Winter", 5>>

\* The real numbers of the recharge formulas are compared as natural
\* numbers: each is multiplied by 2^Shift, where 2^(Shift - 30) clears the
\* binary fraction of the record's temperature.
Shift == Max(0, -RecordTemperature.e) + 30

\* x * 2^k for the natural number x
TimesTwoTo(x, k) == NatShiftLeft(NatOf(x), k)

\* The distance |a - b| of the signed numbers (-1)^an * a and (-1)^bn * b.
Distance(an, a, bn, b) ==
    IF an # bn THEN NatAdd(a, b)
    ELSE IF NatLess(a, b) THEN NatSub(b, a) ELSE NatSub(a, b)

\* a <= b for natural numbers
NatLeq(a, b) == ~NatLess(b, a)

\* (temp-10)*(100-humidity)/1000 * (1 + wind_speed/50) of the record's
\* values as a real number, times 50000 * 2^Shift: sign and magnitude.
ExactEvaporationFormula ==
    LET temp == NatShiftLeft(RecordTemperature.m, RecordTemperature.e + Shift)
        ten  == TimesTwoTo(10, Shift)
        cold == RecordTemperature.neg \/ NatLess(temp, ten)
        diff == IF RecordTemperature.neg THEN NatAdd(temp, ten)
                ELSE Distance(FALSE, temp, FALSE, ten)
        dry  == 100 - RecordHumidity
        mag  == NatMul(NatMul(diff, NatOf(IF dry < 0 THEN -dry ELSE dry)),
                       NatOf(50 + RecordWind))
    IN  [neg |-> mag # <<>> /\ (cold # (dry < 0)), m |-> mag]

\* max(0.1, formula) as a real number, times 50000 * 2^Shift.
ExactEvaporation ==
    LET tenth == TimesTwoTo(5000, Shift)
    IN  IF ExactEvaporationFormula.neg
           \/ NatLess(ExactEvaporationFormula.m, tenth)
        THEN tenth ELSE ExactEvaporationFormula.m

\* e (hundredths) is max(0.1, formula) of the record to two decimals: within
\* 0.005, and the error of the float arithmetic, below 2^-30, of the real
\* number.
IsRoundedEvaporation(e) ==
    NatLeq(Distance(FALSE, TimesTwoTo(500 * e, Shift),
                    FALSE, ExactEvaporation),
           NatAdd(TimesTwoTo(250, Shift), TimesTwoTo(50000, Shift - 30)))

\* C19: the evaporation rate returned is
\* max(0.1, (temp-10)*(100-humidity)/1000 * (1 + wind_speed/50)) of the
\* record's values, to the two decimals it is reported with (within 0.005,
\* and the error of the float arithmetic, below 2^-30, of the real number),
\* and so never below 0.1.  The rate is in hundredths.
C19_EvaporationAtLeastTenth ==
    RechargeDone
    => LET e == weather.evaporation_rate_mmday
       IN  /\ e >= 10
           /\ IsRoundedEvaporation(e)

\* 5 C at 40% humidity: the formula is negative, the rate 0.1.
C19_Witness ==
    /\ RechargeDone
    /\ RecordTemperature = FloatOf(5)
    /\ RecordHumidity = 40
    /\ weather.evaporation_rate_mmday = 10

\* C20: infiltration_potential is min(1.0, annual_rainfall_mm/2000), to the
\* three decimals it is reported with: annual_rainfall_mm/2000 below
\* 2000 mm, exactly 1.0 from 2000 mm on, never more than 1.0.
C20_InfiltrationCapped ==
    RechargeDone
    => LET i == weather.infiltration_potential
       IN  /\ i <= 1000
           /\ RecordRainfall >= 2000 => i = 1000
           /\ RecordRainfall < 2000 => 2 * i - RecordRainfall \in -1..1

C20_Witness ==
    /\ RechargeDone
    /\ RecordRainfall = 3000
    /\ weather.infiltration_potential = 1000

\* infiltration_potential * (1 - evaporation_rate/10) of the record as a
\* real number, times 10^9 * 2^Shift: sign and magnitude.  It is
\* I * (500000 * 2^Shift - E) with I = min(rainfall, 2000) and E the
\* evaporation above.
ExactEfficiency ==
    LET ten == TimesTwoTo(500000, Shift)
        mag == NatMul(NatOf(Min(RecordRainfall, 2000)),
                      Distance(FALSE, ten, FALSE, ExactEvaporation))
    IN  [neg |-> mag # <<>> /\ NatLess(ten, ExactEvaporation), m |-> mag]

\* The reported efficiency (thousandths) is the real product to three
\* decimals: within 0.0005, and the error of the float arithmetic, below
\* 2^-30.
EfficiencyIsRoundedProduct ==
    LET r == weather.recharge_efficiency
    IN  NatLeq(Distance(r < 0,
                        NatShiftLeft(NatMul(NatOf(1000000),
                                            NatOf(IF r < 0 THEN -r ELSE r)),
                                     Shift),
                        ExactEfficiency.neg, ExactEfficiency.m),
               NatAdd(TimesTwoTo(500000, Shift),
                      TimesTwoTo(1000000000, Shift - 30)))

\* evaporation_rate > 10 and infiltration_potential > 0 on the record: the
\* locals of lines 386 and 390, as real numbers.
EvaporationAboveTen ==
    /\ NatLess(TimesTwoTo(500000, Shift), ExactEvaporation)
    /\ RecordRainfall > 0

\* C21 as stated: recharge_efficiency equals
\* infiltration_potential * (1 - evaporation_rate/10), to the three decimals
\* it is reported with, with no clamping: it is negative whenever
\* evaporation_rate > 10 and infiltration_potential > 0, and it never
\* exceeds infiltration_potential.
C21_NegativeWheneverAboveTen ==
    RechargeDone
    => /\ EfficiencyIsRoundedProduct
       /\ (EvaporationAboveTen => weather.recharge_efficiency < 0)
       /\ weather.recharge_efficiency <= weather.infiltration_potential

\* The real product lies below -0.0005 by more than the error of the float
\* arithmetic, 2^-30.
ProductBelowHalfThousandth ==
    /\ ExactEfficiency.neg
    /\ NatLess(NatAdd(TimesTwoTo(500000, Shift),
                      TimesTwoTo(1000000000, Shift - 30)),
               ExactEfficiency.m)

\* C21 as amended: recharge_efficiency equals
\* infiltration_potential * (1 - evaporation_rate/10), rounded to three
\* decimals, with no clamping: whenever evaporation_rate > 10 and
\* infiltration_potential > 0 it is never positive, and it is negative once
\* the product lies below -0.0005 (a product between -0.0005 and 0 is
\* reported as -0.0, which is not negative); it never exceeds
\* infiltration_potential.
C21_EfficiencyNotClamped ==
    RechargeDone
    => /\ EfficiencyIsRoundedProduct
       /\ (EvaporationAboveTen => weather.recharge_efficiency <= 0)
       /\ (ProductBelowHalfThousandth => weather.recharge_efficiency < 0)
       /\ weather.recharge_efficiency <= weather.infiltration_potential

\* 45 C, 0% humidity, 93 km/h: evaporation 10.01; with 1200 mm the efficiency
\* 0.6 * -0.001 is reported as -0.001.
C21_Witness ==
    /\ RechargeDone
    /\ weather.evaporation_rate_mmday = 1001
    /\ weather.infiltration_potential = 600
    /\ weather.recharge_efficiency = -1

\* The estimator has returned, with its outputs or with {}.
RechargeReturned == pc \in {"recharge_done", "recharge_failed"}

\* The documented defaults of the estimator's inputs.
RechargeDefaults ==
    [avg_temperature_c |-> FloatOf(25), current_humidity_percent |-> 70,
     current_wind_speed_kmh |-> 10, annual_rainfall_mm |-> 1200,
     max_daily_rainfall_mm |-> 50]

\* The five outputs of the estimator.
RechargeOutputs ==
    {"evaporation_rate_mmday", "infiltration_potential",
     "recharge_efficiency", "recharge_seasonality", "monsoon_intensity"}

\* The inputs of the record, each missing one replaced by its default.
Completed == [k \in RechargeKeys |-> Get(weather, k, RechargeDefaults[k])]

\* C22: the estimator never fails: for every weather record, including one
\* missing any subset of temperature, humidity, wind speed, annual rainfall
\* and max daily rainfall, it returns all five outputs, and they are the
\* outputs of the record with 25, 70, 10, 1200 and 50 in place of the
\* missing inputs.
C22_EstimatorTotalWithDefaults ==
    RechargeReturned
    => /\ pc = "recharge_done"
       /\ RechargeOutputs \subseteq DOMAIN weather
       /\ [k \in RechargeOutputs |-> weather[k]]
             = RechargeMetrics(Completed, upstream.month)
       /\ weather.monsoon_intensity.peak_rainfall_capacity
             = Completed.max_daily_rainfall_mm

\* The indicator columns of the trained schema.
RoofTypeIndicators ==
    {"roof_type_Concrete", "roof_type_Metal", "roof_type_Tile"}

\* The roof types that have an indicator column in the trained schema.
SchemaRoofTypes == {"Concrete", "Metal", "Tile"}

\* The positions of df_encoded whose indicator column is set.
IndicatorsSet ==
    {i \in 1..Len(df_encoded.columns) :
        /\ df_encoded.columns[i] \in RoofTypeIndicators
        /\ df_encoded.values[i] # 0}

\* C23: the vector handed to the models has exactly the columns of the
\* trained schema in the trained order; a column of the features keeps its
\* value, a schema column not produced from the request is 0, no column
\* outside the schema remains; exactly one roof_type indicator is 1, that
\* of the request's roof type, when the schema has it, and all are 0 when
\* it has not.
C23_VectorAlignedToSchema ==
    PredictAnswered
    => /\ df_encoded.columns = model_features
       /\ Len(df_encoded.values) = Len(model_features)
       /\ \A i \in 1..Len(df_encoded.values) :
             /\ df_encoded.columns[i] \notin RoofTypeIndicators
                   => df_encoded.values[i] = vector[df_encoded.columns[i]]
             /\ df_encoded.columns[i] \in RoofTypeIndicators
                   => df_encoded.values[i] \in {0, 1}
       /\ IF req.roof_type \in SchemaRoofTypes
          THEN /\ Cardinality(IndicatorsSet) = 1
               /\ \A i \in IndicatorsSet :
                     df_encoded.columns[i] = RoofTypeColumn[req.roof_type]
          ELSE IndicatorsSet = {}

\* A Metal roof: of the 26 columns the 25th, roof_type_Metal, is 1 and the
\* other two indicators were filled with 0.
C23_Witness ==
    /\ PredictAnswered
    /\ req.roof_type = "Metal"
    /\ Len(df_encoded.values) = 26
    /\ df_encoded.columns[25] = "roof_type_Metal"
    /\ df_encoded.values[25] = 1
    /\ df_encoded.values[24] = 0
    /\ df_encoded.values[26] = 0

\* A roof type the training set did not have: its indicator column is
\* dropped and the three of the schema are 0.
UnknownRoofTypeAnswered ==
    /\ PredictAnswered
    /\ req.roof_type = "Thatch"
    /\ IndicatorsSet = {}

\* The two invocations of the three components, made on the same request,
\* weather record and model outputs.
FirstCall == calls[1]

SecondCall == calls[2]

\* C24: invoking the feature derivation, the water balance or the recharge
\* estimator twice with identical explicit inputs yields identical outputs.
C24_RepeatedCallsAgree ==
    Len(calls) = 2 => FirstCall = SecondCall

\* The part of C24 the code keeps: the feature vector and the water balance
\* of two invocations agree, and so do the estimator's outputs other than
\* recharge_seasonality.
RepeatedCallsAgreeButSeason ==
    Len(calls) = 2 =>
        /\ FirstCall.vector = SecondCall.vector
        /\ FirstCall.balance = SecondCall.balance
        /\ DOMAIN FirstCall.recharge = DOMAIN SecondCall.recharge
        /\ \A k \in DOMAIN FirstCall.recharge \ {"recharge_seasonality"} :
              FirstCall.recharge[k] = SecondCall.recharge[k]

\* Two invocations on one request and record that fall into months of
\* different seasons.
RepeatedAcrossMonths ==
    /\ Len(calls) = 2
    /\ FirstCall.vector # NoVector
    /\ "recharge_seasonality" \in DOMAIN FirstCall.recharge
    /\ "recharge_seasonality" \in DOMAIN SecondCall.recharge
    /\ FirstCall.recharge.recharge_seasonality
          # SecondCall.recharge.recharge_seasonality

\* get_comprehensive_weather_data has returned its record to the handler
\* of the request thread th has answered.
RecordReturnedTo(th) ==
    /\ th.pc = "done"
    /\ \/ th.endpoint = "predict"
       \/ (th.endpoint \in ComprehensiveRoutes /\ th.status = 200)

\* What predict derives from the request r and the record w handed to it:
\* whether its try block raises, the features and the vector.
Derivation(r, w) ==
    [weather |-> w,
     raises |-> PredictRaises(r, w),
     features |-> Features(r, w),
     vector |-> IF PredictRaises(r, w) THEN NoVector
                ELSE FeatureVector(r, Features(r, w))]

\* The record get_comprehensive_weather_data returns for the request r and
\* the upstream answers up, and what predict derives from it, with no
\* other request in the server.
AloneDerivation(r, up) ==
    Derivation(r, GetComprehensiveWeatherData(r.latitude, r.longitude, up))

\* The same for the requests and the upstream answers the server is
\* explored with, computed once.
ServedAlone ==
    Tabulated([k \in (ServerRequests \cup ServerQueries) \X ServerUpstreams |->
                  AloneDerivation(k[1], k[2])])

AloneOf(th) ==
    Lookup(ServedAlone, <<th.req, th.upstream>>,
           AloneDerivation(th.req, th.upstream))

\* The results of the request of thread th handled with no other request
\* in the server.
AloneWeather(th) == AloneOf(th).weather

AloneVector(th) ==
    IF th.endpoint = "predict" THEN AloneOf(th).vector ELSE NoVector

AloneBalance(th) ==
    IF th.endpoint # "predict" THEN NoResponse
    ELSE IF AloneOf(th).raises THEN ErrorResponse
    ELSE BuildResponse(th.req, AloneOf(th).features, th.ml)

\* C25: whatever the interleaving of concurrent predict and weather
\* requests, each request's weather record, feature vector and
\* water-balance outputs are those it has when it runs alone, and
\* default_weather of the shared service is never changed.
C25_ConcurrentRequestsAsAlone ==
    /\ default_map = default_weather
    /\ \A t \in Threads :
          RecordReturnedTo(threads[t]) =>
              /\ threads[t].weather = AloneWeather(threads[t])
              /\ threads[t].vector = AloneVector(threads[t])
              /\ [threads[t].response EXCEPT !.prediction_id = 0]
                    = AloneBalance(threads[t])

\* A predict request has been answered with a result while a request with
\* other upstream answers is in the middle of building its record.
C25_Witness ==
    /\ PredictDoneBy(threads[1])
    /\ threads[1].response.error = ""
    /\ threads[1].vector # NoVector
    /\ threads[2].pc = "recharge"
    /\ threads[2].upstream # threads[1].upstream
    /\ threads[2].weather.avg_temperature_c
          # threads[1].weather.avg_temperature_c

\* get_comprehensive_weather_data has returned its record to the handler of
\* the answered request.
RecordReturned ==
    /\ pc = "done"
    /\ \/ endpoint = "predict"
       \/ (endpoint \in ComprehensiveRoutes /\ status = 200)

\* The estimator's outputs are part of the returned record.
EstimatorSucceeded == RecordReturned /\ "recharge_efficiency" \in DOMAIN weather

\* C26: whatever the upstream lookups answer, the returned record has
\* annual_rainfall_mm = 1200, max_daily_rainfall_mm = 50 and
\* rainy_days_count = 120, and the estimator's monsoon intensity is Moderate
\* and its infiltration_potential 0.6.
C26_RainfallKeysStayDefault ==
    /\ RecordReturned
       => /\ weather.annual_rainfall_mm = 1200
          /\ weather.max_daily_rainfall_mm = 50
          /\ weather.rainy_days_count = 120
    /\ EstimatorSucceeded
       => /\ weather.monsoon_intensity.monsoon_intensity = "Moderate"
          /\ weather.monsoon_intensity.intensity_score = 5
          /\ weather.monsoon_intensity.peak_rainfall_capacity = 50
          /\ weather.infiltration_potential = 600

\* The district, state and subdivision lookups answered rainfalls other
\* than 1200 mm and the forecast a wet day; the record keeps the defaults.
C26_Witness ==
    /\ EstimatorSucceeded
    /\ {"district_avg_rainfall_mm", "subdivision_rainfall_mm",
        "forecast_rainy_days"} \subseteq DOMAIN weather
    /\ weather.district_avg_rainfall_mm = FloatOf(900)
    /\ weather.subdivision_rainfall_mm = 2100
    /\ weather.forecast_rainy_days > 0
    /\ weather.annual_rainfall_mm = 1200
    /\ weather.monsoon_intensity.monsoon_intensity = "Moderate"

\* The current-weather lookup answered a humidity that is not a number:
\* the estimator returned {} and the record has no monsoon_intensity.
RecordWithoutEstimate ==
    /\ RecordReturned
    /\ upstream.current.humidity = NonNumeric
    /\ "monsoon_intensity" \notin DOMAIN weather
    /\ weather.annual_rainfall_mm = 1200

\* A request to one of the seven weather routes has been answered.
WeatherRouteDone == pc = "done" /\ endpoint \in WeatherRoutes

\* lat or lon of the answered request is missing or not a number.
CoordinateMissing == req.latitude.k # "num" \/ req.longitude.k # "num"

\* C27: each weather GET route answers 400 if and only if lat or lon is
\* missing or not a number; every numeric coordinate, 0 included, is
\* accepted.
C27_NumericCoordinatesAccepted ==
    WeatherRouteDone => (status = 400 <=> CoordinateMissing)

\* What the routes do: a coordinate of 0 is refused like a missing one, and
\* /weather/historical converts days before it looks at the coordinates.
CoordinatesTestedForTruth ==
    WeatherRouteDone /\ status # 500
    => (status = 400 <=> (\/ CoordinateMissing
                          \/ req.latitude.v = 0
                          \/ req.longitude.v = 0))

\* GET /weather?lat=0&lon=77.2 answered 400.
ZeroLatitudeRefused ==
    /\ WeatherRouteDone
    /\ req.latitude = Num(0)
    /\ req.longitude = Num(772)
    /\ status = 400

\* The steps of predict that write a row.
SaveSteps == DOMAIN NextSave

\* The table each step writes.
TableOf ==
    [save_prediction |-> "predictions", save_weather_data |-> "weather_data",
     save_analytics_score |-> "analytics", save_analytics_tank |-> "analytics"]

\* One step of the server as far as the persistence of the request of
\* thread t goes.
PersistenceStepOf(t) ==
    LET before == threads[t]
        after  == threads'[t]
    IN  /\ after.pc = "save_prediction" /\ before.pc # "save_prediction"
           => /\ before.pc = "balance"
              /\ after.weather
                    = GetComprehensiveWeatherData(after.req.latitude,
                                                  after.req.longitude,
                                                  after.upstream)
              /\ ~PredictRaises(after.req, after.weather)
              /\ after.vector # NoVector
              /\ after.ml \in MLOutputs
              /\ after.response.error = ""
              /\ after.response.prediction_id = 0
              /\ db' = db
        /\ before.pc \in SaveSteps /\ after # before
           => \/ /\ after.pc = NextSave[before.pc]
                 /\ ~before.dbFailed /\ ~after.dbFailed
                 /\ db' = [db EXCEPT ![TableOf[before.pc]] = @ + 1]
              \/ /\ after.pc = "respond"
                 /\ after.dbFailed
                 /\ db' = db
        /\ before.pc = "respond" /\ after # before
           => after.pc = "done" /\ db' = db
        /\ before.pc = "save_prediction" /\ after # before
           => after.response.prediction_id
                 = IF db' # db THEN db'.predictions ELSE 0
        /\ before.pc \in (SaveSteps \ {"save_prediction"}) \cup {"respond"}
           => after.response.prediction_id = before.response.prediction_id

\* One step of the server as far as persistence goes: every thread keeps
\* the order, and a row is written by a thread at one of its save steps
\* only.
PersistenceStep ==
    /\ \A t \in Threads : PersistenceStepOf(t)
    /\ db' # db
       => \E t \in Threads :
             threads[t].pc \in SaveSteps /\ threads'[t] # threads[t]

\* C28: predict persists only after the weather lookup, the feature
\* derivation, the models and the water balance have succeeded, in the
\* order save_prediction, save_weather_data, save_analytics
\* (feasibility_score), save_analytics(tank_capacity); the first failing
\* step skips the later ones and leaves the earlier rows; the response has
\* a prediction_id exactly when save_prediction succeeded.
C28_PersistenceInOrder == [][PersistenceStep]_vars

\* The first save_analytics of a request failed while another request was
\* saved in full: the prediction and the weather row of the first are in
\* place, none of its analytics rows was written, and each answer carries
\* the id of its own prediction.
C28_Witness ==
    /\ PredictDoneBy(threads[1]) /\ threads[1].status = 200
    /\ PredictDoneBy(threads[2]) /\ threads[2].status = 200
    /\ threads[1].dbFailed /\ ~threads[2].dbFailed
    /\ db = [predictions |-> 2, weather_data |-> 2, analytics |-> 2]
    /\ threads[1].response.prediction_id = 1
    /\ threads[2].response.prediction_id = 2

\* save_prediction itself failed: nothing was written and the answer has
\* no prediction_id.
AnsweredWithoutId ==
    /\ PredictDoneBy(threads[1]) /\ threads[1].status = 200
    /\ threads[1].dbFailed
    /\ db = NoDb
    /\ threads[1].response.prediction_id = 0

\* A request that waits between save_prediction and save_weather_data
\* while a later request is saved in full and answered: the id of its
\* answer is that of its own row, not the number of predictions.
OvertakenBetweenSaves ==
    /\ threads[1].pc = "save_weather_data"
    /\ threads[1].response.prediction_id = 1
    /\ PredictDoneBy(threads[2]) /\ threads[2].status = 200
    /\ threads[2].response.prediction_id = 2
    /\ db = [predictions |-> 2, weather_data |-> 1, analytics |-> 2]

\* e (hundredths) is the evaporation rate of the returned record: 0.1 when
\* the formula gives less, otherwise the formula's value to two decimals.
IsRecordEvaporation(e) ==
    IF ExactEvaporation = TimesTwoTo(5000, Shift) THEN e = 10
    ELSE e > 0 /\ IsRoundedEvaporation(e)

\* The returned record is that of _get_fallback_weather_data.
FallbackReturned == Get(weather, "data_source", "") = "FALLBACK"

\* C29: whenever the estimator succeeds, evaporation_rate_mmday of the
\* weather record, and with it the feature, climate_aridity and the model
\* input, is the estimator's value and not the default 4.5; on the
\* fallback path it is 0.54.
C29_EvaporationIsEstimated ==
    EstimatorSucceeded
    => /\ IsRecordEvaporation(weather.evaporation_rate_mmday)
       /\ FallbackReturned => weather.evaporation_rate_mmday = 54
       /\ PredictAnswered
             => /\ features.evaporation_rate_mmday
                      = weather.evaporation_rate_mmday
                /\ vector.evaporation_rate_mmday
                      = weather.evaporation_rate_mmday
                /\ vector.climate_aridity
                      = FDiv(Float(weather.evaporation_rate_mmday, 2),
                             FAdd(FDiv(FloatOf(weather.annual_rainfall_mm),
                                       FloatOf(365)),
                                  Float(1, 1)))
                /\ df_encoded.values[5] = weather.evaporation_rate_mmday

\* A predict request answered from the fallback record: 0.54 mm/day.
C29_Witness ==
    /\ PredictAnswered
    /\ EstimatorSucceeded
    /\ FallbackReturned
    /\ weather.evaporation_rate_mmday = 54
    /\ vector.evaporation_rate_mmday = 54

\* The estimator failed: the record keeps the default 4.5.
DefaultEvaporationKept ==
    /\ RecordReturned
    /\ ~EstimatorSucceeded
    /\ weather.evaporation_rate_mmday = 450

\* An export request has been answered.
ExportDone == pc = "done" /\ endpoint = "export"

\* C30: the export route reads the database only for predictions,
\* weather_data, analytics or users; any other name is answered 400
\* without a call of DatabaseManager.export_data, so no other text reaches
\* the SQL string.
C30_OnlyAllowedTablesQueried ==
    ExportDone
    => IF export.table_name
             \in {"predictions", "weather_data", "analytics", "users"}
       THEN /\ export.sql = <<export.table_name>>
            /\ status \in {200, 500}
       ELSE /\ export.sql = <<>>
            /\ status = 400

\* A name that would extend the statement was answered 400 and reached no
\* query.
C30_Witness ==
    /\ ExportDone
    /\ export.table_name = "users; DROP TABLE predictions"
    /\ status = 400
    /\ export.sql = <<>>

\* An allowed table was read.
AllowedTableExported ==
    /\ ExportDone
    /\ export.table_name = "users"
    /\ status = 200
    /\ export.sql = <<"users">>

====
